---- MODULE Spec2Model ----
(***************************************************************************)
(* The BVM execution engine (bvm/vm.py), its gas table (bvm/gas.py), its   *)
(* opcode catalog (bvm/opcodes.py) and the WorldState it reads and commits *)
(* storage to (state/world_state.py), as a state machine.                  *)
(*                                                                         *)
(* A run of BVM.execute is split at the iterations of its while loop:      *)
(* Execute is lines 34-39, OutOfGas and Dispatch are one loop iteration    *)
(* (lines 45-55) and Commit is the loop exit (lines 56-62).                *)
(***************************************************************************)
EXTENDS Integers, Sequences, FiniteSets, TLC

VARIABLES
    accounts,          \* WorldState.accounts: address -> account record
    phase,             \* "idle" | "running" | "returned" | "raised"
    code,              \* BVM.code
    pc,                \* BVM.pc
    stack,             \* BVM.stack, top of stack last
    storage,           \* BVM.storage, a dict (insertion-ordered key/value pairs)
    aliased,           \* BVM.storage is the very dict held in accounts[address]
    gas_remaining,     \* BVM.gas_remaining
    stopped,           \* BVM.stopped
    contract_address,  \* BVM.contract_address
    jumpdests,         \* BVM.jumpdests
    opcode,            \* the local `opcode` of execute: the last byte fetched
    result,            \* the dict execute returned
    fault,             \* class of the VMException execute caught, "" if none
    raised,            \* class of the exception that left execute, "" if none
    gas_limit,         \* the gas_limit argument of the current run
    accounts0,         \* history: accounts when the current run started
    writes,            \* history: <<key, value>> of every SSTORE of the run
    path,              \* history: offsets of the instructions dispatched
    pre,               \* history: the machine when the last iteration began
    prev,              \* history: address, outcome and writes of the run before
    runs,              \* number of runs started
    compilation        \* what the last call of a front end's compile gave

vars == <<accounts, phase, code, pc, stack, storage, aliased, gas_remaining,
          stopped, contract_address, jumpdests, opcode, result, fault, raised,
          gas_limit, accounts0, writes, path, pre, prev, runs, compilation>>

-----------------------------------------------------------------------------
(* bvm/opcodes.py: class Opcode *)
STOP == 0
ADD == 1
SUB == 2
MUL == 3
DIV == 4
MOD == 5
LT == 16
GT == 17
EQ == 18
ISZERO == 19
LTE == 20
GTE == 21
POP == 80
SLOAD == 84
SSTORE == 85
JUMP == 86
JUMPI == 87
PC == 88
JUMPDEST == 91
PUSH1 == 96

(* The 20 attributes of class Opcode. *)
Opcodes ==
    {STOP, ADD, SUB, MUL, DIV, MOD, LT, GT, EQ, LTE, GTE, ISZERO, POP, PUSH1,
     SLOAD, SSTORE, JUMP, JUMPI, JUMPDEST, PC}

(* hex(n) of Python for n >= 0. *)
HexDigits == <<"0", "1", "2", "3", "4", "5", "6", "7", "8", "9",
               "a", "b", "c", "d", "e", "f">>

RECURSIVE HexBody(_)
HexBody(n) ==
    IF n < 16 THEN HexDigits[n + 1]
    ELSE HexBody(n \div 16) \o HexDigits[(n % 16) + 1]

hex(n) == "0x" \o HexBody(n)

(* bvm/opcodes.py: OPCODE_NAMES (MOD has no entry). *)
OPCODE_NAMES ==
    (ADD :> "ADD") @@ (SUB :> "SUB") @@ (MUL :> "MUL") @@ (DIV :> "DIV") @@
    (PUSH1 :> "PUSH1") @@ (POP :> "POP") @@ (STOP :> "STOP") @@
    (SSTORE :> "SSTORE") @@ (SLOAD :> "SLOAD") @@ (JUMP :> "JUMP") @@
    (JUMPI :> "JUMPI") @@ (JUMPDEST :> "JUMPDEST") @@ (PC :> "PC") @@
    (GT :> "GT") @@ (LT :> "LT") @@ (EQ :> "EQ") @@ (ISZERO :> "ISZERO") @@
    (LTE :> "LTE") @@ (GTE :> "GTE")

(* OPCODE_NAMES.get(opcode, hex(opcode)) *)
opcode_name(op) ==
    IF op \in DOMAIN OPCODE_NAMES THEN OPCODE_NAMES[op] ELSE hex(op)

(* bvm/gas.py: OPCODE_GAS (PC has no entry). *)
OPCODE_GAS ==
    (STOP :> 0) @@ (ADD :> 3) @@ (SUB :> 3) @@ (MUL :> 5) @@ (DIV :> 5) @@
    (MOD :> 5) @@ (LT :> 3) @@ (GT :> 3) @@ (EQ :> 3) @@ (ISZERO :> 3) @@
    (LTE :> 3) @@ (GTE :> 3) @@ (POP :> 2) @@ (PUSH1 :> 3) @@
    (SLOAD :> 200) @@ (SSTORE :> 5000) @@ (JUMP :> 8) @@ (JUMPI :> 10) @@
    (JUMPDEST :> 1)

(* get_opcode_gas that charges 1 for a byte outside the table *)
get_opcode_gas_default_one(op) ==
    IF op \in DOMAIN OPCODE_GAS THEN OPCODE_GAS[op] ELSE 1

(* bvm/gas.py: get_opcode_gas *)
get_opcode_gas(op) ==
    IF op \in DOMAIN OPCODE_GAS THEN OPCODE_GAS[op] ELSE 0

(* bvm/vm.py: BVM.MAX_STACK_DEPTH *)
MAX_STACK_DEPTH == 1024

(* bvm/vm.py: the default of execute's gas_limit *)
DefaultGas == 500000

-----------------------------------------------------------------------------
(* Python dicts.  A dict is the sequence of its <<key, value>> items in     *)
(* insertion order.  A key is an int, <<"int", n>>, or the str of an int,   *)
(* <<"str", n>> standing for str(n): 5 and "5" are different keys.          *)
IntKey(n) == <<"int", n>>
StrKey(n) == <<"str", n>>

(* str(k) for a key k *)
str(k) == <<"str", k[2]>>

EmptyDict == <<>>

DictKeys(d) == {d[i][1] : i \in 1..Len(d)}

(* d.get(k, default) *)
DictGet(d, k, default) ==
    IF k \in DictKeys(d)
    THEN d[CHOOSE i \in 1..Len(d) : d[i][1] = k][2]
    ELSE default

(* d[k] = v *)
DictSet(d, k, v) ==
    IF k \in DictKeys(d)
    THEN [i \in 1..Len(d) |-> IF d[i][1] = k THEN <<k, v>> ELSE d[i]]
    ELSE Append(d, <<k, v>>)

(* {str(k): v for k, v in storage.items()} *)
RECURSIVE StrItems(_, _)
StrItems(d, acc) ==
    IF d = <<>> THEN acc
    ELSE StrItems(Tail(d), DictSet(acc, str(Head(d)[1]), Head(d)[2]))

-----------------------------------------------------------------------------
(* state/world_state.py: WorldState *)
NewAccount == [balance |-> 0, storage |-> EmptyDict, code |-> <<>>]

create_account(accts, address) ==
    IF address \notin DOMAIN accts
    THEN (address :> NewAccount) @@ accts
    ELSE accts

get_storage(accts, address) ==
    IF address \in DOMAIN accts THEN accts[address].storage ELSE EmptyDict

(* update_storage that assigns the storage to every account it holds *)
update_storage_of_all(accts, address, st) ==
    [b \in DOMAIN create_account(accts, address) |->
        [create_account(accts, address)[b] EXCEPT
            !.storage = StrItems(st, EmptyDict)]]

(* update_storage without the assignment to accounts[address]['storage'] *)
update_storage_unassigned(accts, address, st) == create_account(accts, address)

update_storage(accts, address, st) ==
    [create_account(accts, address) EXCEPT
        ![address].storage = StrItems(st, EmptyDict)]

-----------------------------------------------------------------------------
(* bvm/vm.py: the interpreter.  A machine m is the part of the BVM object   *)
(* that execute_opcode reads and writes, with the exception it raised       *)
(* (exc, "" if none, and its message msg), the value of the last stack_pop  *)
(* (ret) and the locals a and b of execute_opcode.                          *)
Machine(p, s, st, stp) ==
    [pc |-> p, stack |-> s, storage |-> st, stopped |-> stp,
     exc |-> "", msg |-> "", ret |-> 0, a |-> 0, b |-> 0]

Raise(m, cls, message) == [m EXCEPT !.exc = cls, !.msg = message]

(* The subclasses of VMException (bvm/exceptions.py): execute catches these. *)
VMExceptions ==
    {"OutOfGasError", "StackUnderflowError", "StackOverflowError",
     "InvalidOpcodeError", "InvalidJumpError"}

(* stack_push that lets the stack grow one entry past MAX_STACK_DEPTH *)
stack_push_one_past(m, value) ==
    IF Len(m.stack) > MAX_STACK_DEPTH
    THEN Raise(m, "StackOverflowError", "")
    ELSE [m EXCEPT !.stack = Append(@, value)]

(* BVM.stack_push *)
stack_push(m, value) ==
    IF Len(m.stack) >= MAX_STACK_DEPTH
    THEN Raise(m, "StackOverflowError", "")
    ELSE [m EXCEPT !.stack = Append(@, value)]

(* BVM.stack_pop: the popped value is left in ret *)
stack_pop(m) ==
    IF m.stack = <<>>
    THEN Raise(m, "StackUnderflowError", "")
    ELSE [m EXCEPT !.stack = SubSeq(@, 1, Len(@) - 1),
                   !.ret = m.stack[Len(m.stack)]]

(* a = self.stack_pop(): the value is left in a *)
Pop1(m) ==
    LET m1 == stack_pop(m)
    IN  IF m1.exc # "" THEN m1 ELSE [m1 EXCEPT !.a = m1.ret]

(* a = self.stack_pop(); b = self.stack_pop(): the values are left in a, b *)
Pop2(m) ==
    LET m1 == Pop1(m)
    IN  IF m1.exc # "" THEN m1
        ELSE LET m2 == stack_pop(m1)
             IN  IF m2.exc # "" THEN m2 ELSE [m2 EXCEPT !.b = m2.ret]

(* The statements after the pops run only when no pop raised *)
Then(m, after) == IF m.exc # "" THEN m ELSE after

(* Python's b // a and b % a for a # 0 (floor division, sign of the divisor) *)
FloorDiv(b, a) == IF a > 0 THEN b \div a ELSE (-b) \div (-a)
PyMod(b, a) == IF a > 0 THEN b % a ELSE -((-b) % (-a))

Bool(p) == IF p THEN 1 ELSE 0

(* DIV with its operands exchanged: a // b *)
OpDIV_swapped(m, a, b) ==
    IF a = 0 THEN stack_push(m, 0)
    ELSE IF b = 0
         THEN Raise(m, "ZeroDivisionError", "integer division or modulo by zero")
         ELSE stack_push(m, FloorDiv(a, b))

(* self.stack_push(0 if b == 0 else b // a) *)
OpDIV(m, a, b) ==
    IF b = 0 THEN stack_push(m, 0)
    ELSE IF a = 0
         THEN Raise(m, "ZeroDivisionError", "integer division or modulo by zero")
         ELSE stack_push(m, FloorDiv(b, a))

(* self.stack_push(0 if b == 0 else b % a) *)
OpMOD(m, a, b) ==
    IF b = 0 THEN stack_push(m, 0)
    ELSE IF a = 0
         THEN Raise(m, "ZeroDivisionError", "integer division or modulo by zero")
         ELSE stack_push(m, PyMod(b, a))

(* PUSH1: the byte at pc is the literal *)
OpPUSH1(m, bytes) ==
    IF m.pc >= Len(bytes)
    THEN Raise(m, "InvalidOpcodeError", "PUSH1 without byte")
    ELSE stack_push([m EXCEPT !.pc = @ + 1], bytes[m.pc + 1])

(* SSTORE: self.storage[key] = value, key an int *)
OpSSTORE(m, key, value) ==
    [m EXCEPT !.storage = DictSet(@, IntKey(key), value)]

(* SLOAD: self.storage.get(key, 0), key an int *)
OpSLOAD(m, key) == stack_push(m, DictGet(m.storage, IntKey(key), 0))

(* JUMP *)
OpJUMP(m, dest, dests) ==
    IF dest \notin dests
    THEN Raise(m, "InvalidJumpError",
               "Invalid JUMP destination: " \o ToString(dest))
    ELSE [m EXCEPT !.pc = dest]

(* JUMPI that jumps without validating the destination *)
OpJUMPI_unvalidated(m, dest, condition, dests) ==
    IF condition # 0 THEN [m EXCEPT !.pc = dest] ELSE m

(* JUMPI *)
OpJUMPI(m, dest, condition, dests) ==
    IF condition # 0
    THEN IF dest \notin dests
         THEN Raise(m, "InvalidJumpError",
                    "Invalid JUMPI destination: " \o ToString(dest))
         ELSE [m EXCEPT !.pc = dest]
    ELSE m

(* The final else of execute_opcode *)
OpUnknown(m, op) ==
    Raise(m, "InvalidOpcodeError", "Unknown opcode: " \o hex(op))

(* BVM.execute_opcode: the if/elif chain *)
execute_opcode(m, op, bytes, dests) ==
    LET p1 == Pop1(m)
        p2 == Pop2(m)
    IN  CASE op = ADD -> Then(p2, stack_push(p2, p2.a + p2.b))
          [] op = SUB -> Then(p2, stack_push(p2, p2.b - p2.a))
          [] op = MUL -> Then(p2, stack_push(p2, p2.a * p2.b))
          [] op = DIV -> Then(p2, OpDIV(p2, p2.a, p2.b))
          [] op = PUSH1 -> OpPUSH1(m, bytes)
          [] op = POP -> stack_pop(m)
          [] op = SSTORE -> Then(p2, OpSSTORE(p2, p2.a, p2.b))
          [] op = SLOAD -> Then(p1, OpSLOAD(p1, p1.a))
          [] op = STOP -> [m EXCEPT !.stopped = TRUE]
          [] op = MOD -> Then(p2, OpMOD(p2, p2.a, p2.b))
          [] op = LT -> Then(p2, stack_push(p2, Bool(p2.b < p2.a)))
          [] op = GT -> Then(p2, stack_push(p2, Bool(p2.b > p2.a)))
          [] op = EQ -> Then(p2, stack_push(p2, Bool(p2.a = p2.b)))
          [] op = LTE -> Then(p2, stack_push(p2, Bool(p2.b <= p2.a)))
          [] op = GTE -> Then(p2, stack_push(p2, Bool(p2.b >= p2.a)))
          [] op = ISZERO -> Then(p1, stack_push(p1, Bool(p1.a = 0)))
          [] op = JUMP -> Then(p1, OpJUMP(p1, p1.a, dests))
          [] op = JUMPI -> Then(p2, OpJUMPI(p2, p2.a, p2.b, dests))
          [] op = JUMPDEST -> m
          [] OTHER -> OpUnknown(m, op)

(* BVM._preprocess_jumpdests: offsets are 0-based *)
preprocess_jumpdests(bytes) ==
    {i - 1 : i \in {j \in 1..Len(bytes) : bytes[j] = JUMPDEST}}

(* The gas check with <= for <, and with the limit off by one the other way *)
gas_insufficient_or_equal(gas, cost) == gas <= cost
gas_insufficient_by_two(gas, cost) == gas + 1 < cost

(* if self.gas_remaining < gas_cost: raise OutOfGasError *)
gas_insufficient(gas, cost) == gas < cost

OutOfGasMessage(cost, gas) ==
    "Not enough gas (needed " \o ToString(cost) \o ", has "
        \o ToString(gas) \o ")"

(* The dict execute returns on success (lines 57-62) *)
SuccessResult(s, st, gas) ==
    [success |-> TRUE, stack |-> s, storage |-> st, gas_remaining |-> gas]

(* The dict execute returns from its except clause (lines 65-73) *)
FailureResult(message, s, st, p, gas, op) ==
    [success |-> FALSE, error |-> message, stack |-> s, storage |-> st,
     pc |-> p, gas_remaining |-> gas, opcode |-> opcode_name(op)]

NoResult == [returned |-> FALSE]

(* The loop of execute (lines 44-55) as a function of the machine and the   *)
(* gas: how it ends, where, with what gas, stack and storage, after         *)
(* dispatching how many.                                                    *)
RECURSIVE Run(_, _, _, _, _)
Run(bytes, dests, m, gas, n) ==
    IF m.stopped \/ m.pc >= Len(bytes)
    THEN [outcome |-> "success", pc |-> m.pc, gas_remaining |-> gas,
          dispatched |-> n, stack |-> m.stack, storage |-> m.storage]
    ELSE LET op == bytes[m.pc + 1]
             gas_cost == get_opcode_gas(op)
         IN  IF gas_insufficient(gas, gas_cost)
             THEN [outcome |-> "OutOfGasError", pc |-> m.pc,
                   gas_remaining |-> gas, dispatched |-> n,
                   stack |-> m.stack, storage |-> m.storage]
             ELSE LET m2 == execute_opcode([m EXCEPT !.pc = @ + 1], op, bytes,
                                           dests)
                  IN  IF m2.exc # ""
                      THEN [outcome |-> m2.exc, pc |-> m2.pc,
                            gas_remaining |-> gas - gas_cost,
                            dispatched |-> n + 1, stack |-> m2.stack,
                            storage |-> m2.storage]
                      ELSE Run(bytes, dests, m2, gas - gas_cost, n + 1)

(* BVM.execute as a function of its arguments and the storage it loads *)
execute(c, g, st) ==
    Run(c, preprocess_jumpdests(c), Machine(0, <<>>, st, FALSE), g, 0)

-----------------------------------------------------------------------------
(* compilers/: the front ends.  A source is the list of statements its      *)
(* parser gives; a node is a tuple that starts with the name of its class.  *)
(* A compilation cs holds the closure variables of compile (bytecode,       *)
(* storage_map, jump_placeholders, label_positions, loop_stack), the class  *)
(* of the exception that has left compile (error, "" if none) and the value *)
(* get_storage_slot returned last (slot).  Offsets are 0-based as in the    *)
(* source: the byte at offset pos is bytecode[pos + 1].                     *)
Num(n) == <<"Num", n>>
Name(id) == <<"Name", id>>
BinOp(left, op, right) == <<"BinOp", left, op, right>>
Compare(left, op, right) == <<"Compare", left, op, right>>
UnaryOp(op, operand) == <<"UnaryOp", op, operand>>
Call(func, args) == <<"Call", func, args>>
Assign(target, value) == <<"Assign", target, value>>
AugAssign(target, op, value) == <<"AugAssign", target, op, value>>
If(test, body, orelse) == <<"If", test, body, orelse>>
While(test, body) == <<"While", test, body>>
For(target, iter, body) == <<"For", target, iter, body>>
Break == <<"Break">>
Continue == <<"Continue">>
Pass == <<"Pass">>

NewCompilation ==
    [bytecode |-> <<>>, storage_map |-> EmptyDict, jump_placeholders |-> <<>>,
     label_positions |-> EmptyDict, loop_stack |-> <<>>, error |-> "",
     slot |-> 0]

(* raise exc: once an exception is on its way nothing else runs *)
RaiseIn(cs, exc) == IF cs.error # "" THEN cs ELSE [cs EXCEPT !.error = exc]

(* bytecode.extend(items), bytecode.append(item): a bytearray takes only    *)
(* values in range(0, 256) and raises ValueError for any other              *)
extend(cs, items) ==
    IF cs.error # "" THEN cs
    ELSE IF \E i \in 1..Len(items) : items[i] \notin 0..255
         THEN RaiseIn(cs, "ValueError")
         ELSE [cs EXCEPT !.bytecode = @ \o items]

(* bytecode[pos] = value that keeps the low eight bits of the value *)
setitem_wrapped(cs, pos, value) ==
    IF cs.error # "" THEN cs
    ELSE [cs EXCEPT !.bytecode[pos + 1] = value % 256]

(* bytecode[pos] = value *)
setitem(cs, pos, value) ==
    IF cs.error # "" THEN cs
    ELSE IF value \notin 0..255
         THEN RaiseIn(cs, "ValueError")
         ELSE [cs EXCEPT !.bytecode[pos + 1] = value]

(* jump_placeholders.append((len(bytecode)-1, label)) *)
placeholder(cs, label) ==
    IF cs.error # "" THEN cs
    ELSE [cs EXCEPT !.jump_placeholders =
                        Append(@, <<Len(cs.bytecode) - 1, label>>)]

(* mark that binds the label to the offset after the coming JUMPDEST *)
mark_past(cs, label) ==
    IF cs.error # "" THEN cs
    ELSE [cs EXCEPT !.label_positions =
                        DictSet(@, label, Len(cs.bytecode) + 1)]

(* label_positions[label] = len(bytecode) *)
mark(cs, label) ==
    IF cs.error # "" THEN cs
    ELSE [cs EXCEPT !.label_positions = DictSet(@, label, Len(cs.bytecode))]

(* f"{prefix}{n}" *)
label(prefix, n) == prefix \o ToString(n)

(* int.from_bytes(hashlib.sha256(var_name.encode()).digest()[:2], 'big'),   *)
(* tabulated for the names the sources use                                  *)
sha256_prefix(var_name) ==
    CASE var_name = "x" -> 11633
      [] var_name = "i" -> 56957
      [] var_name = "j" -> 6303
      [] var_name = "a" -> 51863
      [] var_name = "s" -> 1082
      [] var_name = "c" -> 11901
      [] var_name = "n" -> 6934

(* get_storage_slot that hands out the slots in the order of first use *)
get_storage_slot_in_order(cs, var_name) ==
    IF cs.error # "" THEN cs
    ELSE LET sm == IF var_name \in DictKeys(cs.storage_map)
                   THEN cs.storage_map
                   ELSE DictSet(cs.storage_map, var_name, Len(cs.storage_map))
         IN  [cs EXCEPT !.storage_map = sm, !.slot = DictGet(sm, var_name, 0)]

(* get_storage_slot: the slot is left in cs.slot *)
get_storage_slot(cs, var_name) ==
    IF cs.error # "" THEN cs
    ELSE LET sm == IF var_name \in DictKeys(cs.storage_map)
                   THEN cs.storage_map
                   ELSE DictSet(cs.storage_map, var_name,
                                sha256_prefix(var_name) % 256)
         IN  [cs EXCEPT !.storage_map = sm, !.slot = DictGet(sm, var_name, 0)]

(* The resolve loop that ends every compile *)
RECURSIVE resolve(_, _)
resolve(cs, n) ==
    IF cs.error # "" \/ n > Len(cs.jump_placeholders) THEN cs
    ELSE LET pos == cs.jump_placeholders[n][1]
             lbl == cs.jump_placeholders[n][2]
         IN  IF lbl \in DictKeys(cs.label_positions)
             THEN resolve(setitem(cs, pos, DictGet(cs.label_positions, lbl, 0)),
                          n + 1)
             ELSE RaiseIn(cs, "Exception")

(* What compile gives its caller: the pair it returns, or the exception *)
Compiled(front_end, source, cs) ==
    [front_end |-> front_end, source |-> source,
     returned |-> cs.error = "", error |-> cs.error,
     bytecode |-> IF cs.error = "" THEN cs.bytecode ELSE <<>>,
     storage_map |-> IF cs.error = "" THEN cs.storage_map ELSE EmptyDict,
     jump_placeholders |-> cs.jump_placeholders,
     label_positions |-> cs.label_positions,
     loop_stack |-> cs.loop_stack]

(* Before any call of compile *)
NoCompilation == [Compiled("", <<>>, NewCompilation) EXCEPT !.returned = FALSE]

-----------------------------------------------------------------------------
(* compilers/compiler.py: Compiler.compile, the Python-dialect front end *)
BinOpcodes == [Add |-> ADD, Sub |-> SUB, Mult |-> MUL, Div |-> DIV]
CompareOpcodes == [Gt |-> GT, Lt |-> LT, Eq |-> EQ, GtE |-> GTE, LtE |-> LTE]

RECURSIVE compile_expression(_, _)
compile_expression(cs, expr) ==
    IF cs.error # "" THEN cs
    ELSE CASE expr[1] = "Num" -> extend(cs, <<PUSH1, expr[2]>>)
           [] expr[1] = "Name" ->
                LET c1 == get_storage_slot(cs, expr[2])
                IN  extend(c1, <<PUSH1, c1.slot, SLOAD>>)
           [] expr[1] = "BinOp" ->
                LET c1 == compile_expression(cs, expr[2])
                    c2 == compile_expression(c1, expr[4])
                IN  IF expr[3] \in DOMAIN BinOpcodes
                    THEN extend(c2, <<BinOpcodes[expr[3]]>>)
                    ELSE c2
           [] expr[1] = "Compare" ->
                LET c1 == compile_expression(cs, expr[2])
                    c2 == compile_expression(c1, expr[4])
                IN  IF expr[3] \in DOMAIN CompareOpcodes
                    THEN extend(c2, <<CompareOpcodes[expr[3]]>>)
                    ELSE c2
           [] OTHER -> cs

RECURSIVE handle_statement(_, _)

(* for stmt in body: handle_statement(stmt) *)
RECURSIVE handle_body(_, _)
handle_body(cs, body) ==
    IF body = <<>> \/ cs.error # "" THEN cs
    ELSE handle_body(handle_statement(cs, Head(body)), Tail(body))

(* handle_if without the ISZERO that inverts the condition *)
handle_if_uninverted(cs, node) ==
    LET n == Len(cs.jump_placeholders)
        else_label == label("else_", n)
        end_label == label("end_", n + 1)
        c1 == compile_expression(cs, node[2])
        c2 == placeholder(extend(c1, <<PUSH1, 0>>), else_label)
        c3 == handle_body(extend(c2, <<JUMPI>>), node[3])
        c4 == placeholder(extend(c3, <<PUSH1, 0>>), end_label)
        c5 == extend(mark(extend(c4, <<JUMP>>), else_label), <<JUMPDEST>>)
        c6 == handle_body(c5, node[4])
    IN  extend(mark(c6, end_label), <<JUMPDEST>>)

handle_if(cs, node) ==
    LET n == Len(cs.jump_placeholders)
        else_label == label("else_", n)
        end_label == label("end_", n + 1)
        c1 == compile_expression(cs, node[2])
        c2 == placeholder(extend(extend(c1, <<ISZERO>>), <<PUSH1, 0>>),
                          else_label)
        c3 == handle_body(extend(c2, <<JUMPI>>), node[3])
        c4 == placeholder(extend(c3, <<PUSH1, 0>>), end_label)
        c5 == extend(mark(extend(c4, <<JUMP>>), else_label), <<JUMPDEST>>)
        c6 == handle_body(c5, node[4])
    IN  extend(mark(c6, end_label), <<JUMPDEST>>)

(* The test of handle_for: the iterable is a call range(n) of one argument *)
IsRange(iter) == iter[1] = "Call" /\ iter[2] = "range" /\ Len(iter[3]) = 1

handle_for(cs, node) ==
    IF cs.error # "" THEN cs
    ELSE IF ~IsRange(node[3]) THEN RaiseIn(cs, "NotImplementedError")
    ELSE LET c1 == get_storage_slot(cs, node[2])
             slot == c1.slot
             stop == node[3][3][1]
             c2 == extend(c1, <<PUSH1, 0, PUSH1, slot, SSTORE>>)
             loop_start == Len(c2.bytecode)
             c3 == extend(extend(c2, <<JUMPDEST>>), <<PUSH1, slot, SLOAD>>)
             c4 == extend(compile_expression(c3, stop),
                          <<LT, ISZERO, PUSH1, 0, JUMPI>>)
             end_jump_pos == Len(c4.bytecode) - 2
             c5 == handle_body(c4, node[4])
             c6 == extend(c5, <<PUSH1, slot, SLOAD, PUSH1, 1, ADD, PUSH1, slot,
                                SSTORE>>)
             c7 == extend(c6, <<PUSH1, loop_start, JUMP>>)
             loop_end == Len(c7.bytecode)
         IN  extend(setitem(c7, end_jump_pos, loop_end), <<JUMPDEST>>)

handle_while(cs, node) ==
    IF cs.error # "" THEN cs
    ELSE LET loop_id == Len(cs.loop_stack)
             start_label == label("while_start_", loop_id)
             end_label == label("while_end_", loop_id)
             c1 == [cs EXCEPT !.loop_stack =
                                  Append(@, <<start_label, end_label>>)]
             c2 == extend(mark(c1, start_label), <<JUMPDEST>>)
             c3 == extend(compile_expression(c2, node[2]),
                          <<ISZERO, PUSH1, 0>>)
             c4 == extend(placeholder(c3, end_label), <<JUMPI>>)
             c5 == handle_body(c4, node[3])
             c6 == extend(c5, <<PUSH1,
                                DictGet(c5.label_positions, start_label, 0),
                                JUMP>>)
             c7 == extend(mark(c6, end_label), <<JUMPDEST>>)
         IN  IF c7.error # "" THEN c7
             ELSE [c7 EXCEPT !.loop_stack = SubSeq(@, 1, Len(@) - 1)]

(* handle_break that lowers a break outside any loop to nothing *)
handle_break_dropped(cs) ==
    IF cs.error # "" \/ cs.loop_stack = <<>> THEN cs
    ELSE LET end_label == cs.loop_stack[Len(cs.loop_stack)][2]
         IN  extend(placeholder(extend(cs, <<PUSH1, 0>>), end_label), <<JUMP>>)

handle_break(cs) ==
    IF cs.error # "" THEN cs
    ELSE IF cs.loop_stack = <<>> THEN RaiseIn(cs, "SyntaxError")
    ELSE LET end_label == cs.loop_stack[Len(cs.loop_stack)][2]
         IN  extend(placeholder(extend(cs, <<PUSH1, 0>>), end_label), <<JUMP>>)

handle_continue(cs) ==
    IF cs.error # "" THEN cs
    ELSE IF cs.loop_stack = <<>> THEN RaiseIn(cs, "SyntaxError")
    ELSE LET start_label == cs.loop_stack[Len(cs.loop_stack)][1]
         IN  extend(cs, <<PUSH1, DictGet(cs.label_positions, start_label, 0),
                          JUMP>>)

(* handle_statement: the if/elif chain, which has no else *)
handle_statement(cs, node) ==
    IF cs.error # "" THEN cs
    ELSE CASE node[1] = "If" -> handle_if(cs, node)
           [] node[1] = "For" -> handle_for(cs, node)
           [] node[1] = "While" -> handle_while(cs, node)
           [] node[1] = "Break" -> handle_break(cs)
           [] node[1] = "Continue" -> handle_continue(cs)
           [] node[1] = "Assign" ->
                LET c1 == get_storage_slot(compile_expression(cs, node[3]),
                                           node[2])
                IN  extend(c1, <<PUSH1, c1.slot, SSTORE>>)
           [] OTHER -> cs

(* compile that returns the bytecode without appending STOP *)
compile_without_STOP(source) == resolve(handle_body(NewCompilation, source), 1)

(* Compiler.compile on the statements ast.parse gives (lines 204-217) *)
compile(source) ==
    extend(resolve(handle_body(NewCompilation, source), 1), <<STOP>>)

-----------------------------------------------------------------------------
(* compilers/c_compiler.py: CCompiler.compile, the C front end, on the      *)
(* nodes pycparser gives.  A for statement is For(init, cond, next, stmt);  *)
(* an absent child is None; a postfix ++ is the UnaryOp "p++", a prefix ++  *)
(* the UnaryOp "++".                                                        *)
Constant(value) == <<"Constant", value>>
ID(name) == <<"ID", name>>
BinaryOp(op, left, right) == <<"BinaryOp", op, left, right>>
Assignment(lvalue, rvalue) == <<"Assignment", lvalue, rvalue>>
Decl(name, init) == <<"Decl", name, init>>
DeclList(decls) == <<"DeclList", decls>>
ExprList(exprs) == <<"ExprList", exprs>>
Compound(block_items) == <<"Compound", block_items>>
CFor(init, cond, next, stmt) == <<"For", init, cond, next, stmt>>
None == <<"None">>

CBinaryOpcodes ==
    [s \in {"+", "-", "*", "/", ">", "<", "=="} |->
        CASE s = "+" -> ADD [] s = "-" -> SUB [] s = "*" -> MUL
          [] s = "/" -> DIV [] s = ">" -> GT [] s = "<" -> LT [] s = "==" -> EQ]

(* PUSH1 slot, SLOAD, PUSH1 1, op, PUSH1 slot, SSTORE for variable var_name *)
step_variable(cs, var_name, op) ==
    LET c1 == get_storage_slot(cs, var_name)
    IN  extend(c1, <<PUSH1, c1.slot, SLOAD, PUSH1, 1, op, PUSH1, c1.slot,
                     SSTORE>>)

(* The value of rvalue stored in variable var_name *)
store_variable(cs, var_name) ==
    LET c1 == get_storage_slot(cs, var_name)
    IN  extend(c1, <<PUSH1, c1.slot, SSTORE>>)

RECURSIVE handle_expression(_, _)
handle_expression(cs, expr) ==
    IF cs.error # "" THEN cs
    ELSE CASE expr[1] = "Constant" -> extend(cs, <<PUSH1, expr[2]>>)
           [] expr[1] = "ID" ->
                LET c1 == get_storage_slot(cs, expr[2])
                IN  extend(c1, <<PUSH1, c1.slot, SLOAD>>)
           [] expr[1] = "BinaryOp" ->
                LET c1 == handle_expression(cs, expr[3])
                    c2 == handle_expression(c1, expr[4])
                IN  IF expr[2] \in DOMAIN CBinaryOpcodes
                    THEN extend(c2, <<CBinaryOpcodes[expr[2]]>>)
                    ELSE c2
           [] expr[1] = "UnaryOp" ->
                IF expr[2] = "++" /\ expr[3][1] = "ID"
                THEN step_variable(cs, expr[3][2], ADD)
                ELSE IF expr[2] = "--" /\ expr[3][1] = "ID"
                THEN step_variable(cs, expr[3][2], SUB)
                ELSE cs
           [] OTHER -> cs

RECURSIVE C_handle_statement(_, _)

(* for item in block_items: handle_statement(item); pycparser gives         *)
(* block_items = None for an empty block, and iterating None is a TypeError *)
RECURSIVE C_items(_, _)
C_items(cs, items) ==
    IF items = <<>> \/ cs.error # "" THEN cs
    ELSE C_items(C_handle_statement(cs, Head(items)), Tail(items))

block_items(cs, items) ==
    IF items = <<>> THEN RaiseIn(cs, "TypeError") ELSE C_items(cs, items)

(* if stmt: a Compound item by item, any other statement as it is *)
C_block(cs, stmt) ==
    IF cs.error # "" \/ stmt = None THEN cs
    ELSE IF stmt[1] = "Compound" THEN block_items(cs, stmt[2])
    ELSE C_handle_statement(cs, stmt)

handle_if_statement(cs, node) ==
    LET n == Len(cs.jump_placeholders)
        else_label == label("else_", n)
        end_label == label("end_", n + 1)
        c1 == handle_expression(cs, node[2])
        c2 == placeholder(extend(extend(c1, <<ISZERO>>), <<PUSH1, 0>>),
                          else_label)
        c3 == C_block(extend(c2, <<JUMPI>>), node[3])
        c4 == placeholder(extend(c3, <<PUSH1, 0>>), end_label)
        c5 == extend(mark(extend(c4, <<JUMP>>), else_label), <<JUMPDEST>>)
        c6 == C_block(c5, node[4])
    IN  extend(mark(c6, end_label), <<JUMPDEST>>)

(* loop_stack.append((start, end)) and loop_stack.pop() *)
push_loop(cs, start_label, end_label) ==
    IF cs.error # "" THEN cs
    ELSE [cs EXCEPT !.loop_stack = Append(@, <<start_label, end_label>>)]

pop_loop(cs) ==
    IF cs.error # "" THEN cs
    ELSE [cs EXCEPT !.loop_stack = SubSeq(@, 1, Len(@) - 1)]

handle_while_statement(cs, node) ==
    LET n == Len(cs.jump_placeholders)
        loop_start_label == label("while_start_", n)
        loop_end_label == label("while_end_", n + 1)
        c1 == push_loop(cs, loop_start_label, loop_end_label)
        c2 == extend(mark(c1, loop_start_label), <<JUMPDEST>>)
        c3 == extend(extend(handle_expression(c2, node[2]), <<ISZERO>>),
                     <<PUSH1, 0>>)
        c4 == extend(placeholder(c3, loop_end_label), <<JUMPI>>)
        c5 == C_block(c4, node[3])
        c6 == placeholder(extend(c5, <<PUSH1, 0>>), loop_start_label)
        c7 == extend(mark(extend(c6, <<JUMP>>), loop_end_label), <<JUMPDEST>>)
    IN  pop_loop(c7)

C_handle_break(cs) ==
    IF cs.error # "" THEN cs
    ELSE IF cs.loop_stack = <<>> THEN RaiseIn(cs, "SyntaxError")
    ELSE LET end_label == cs.loop_stack[Len(cs.loop_stack)][2]
         IN  extend(placeholder(extend(cs, <<PUSH1, 0>>), end_label), <<JUMP>>)

(* for decl in node.init.decls: if decl.init: ... *)
RECURSIVE for_decls(_, _)
for_decls(cs, decls) ==
    IF decls = <<>> \/ cs.error # "" THEN cs
    ELSE LET decl == Head(decls)
             c1 == IF decl[3] = None THEN cs
                   ELSE store_variable(handle_expression(cs, decl[3]), decl[2])
         IN  for_decls(c1, Tail(decls))

(* handle_for_statement, lines 168-181: the initialization *)
for_init(cs, init) ==
    IF cs.error # "" \/ init = None THEN cs
    ELSE IF init[1] = "DeclList" THEN for_decls(cs, init[2])
    ELSE IF init[1] = "Assignment"
    THEN store_variable(handle_expression(cs, init[3]), init[2][2])
    ELSE C_handle_statement(cs, init)

(* handle_for_statement, lines 208-288: the increment.  The branch of line  *)
(* 240 reads the name stmt, which the function does not bind: NameError.    *)
for_next(cs, next) ==
    IF cs.error # "" \/ next = None THEN cs
    ELSE IF next[1] = "UnaryOp"
    THEN IF next[2] = "p++" /\ next[3][1] = "ID"
         THEN step_variable(cs, next[3][2], ADD)
         ELSE IF next[2] = "p--" /\ next[3][1] = "ID"
         THEN step_variable(cs, next[3][2], SUB)
         ELSE cs
    ELSE IF next[1] = "Assignment"
    THEN store_variable(handle_expression(cs, next[3]), next[2][2])
    ELSE RaiseIn(cs, "NameError")

(* handle_for_statement, lines 183-198: the condition and the exit jump *)
for_cond(cs, cond, loop_cond_label, loop_end_label) ==
    LET c1 == extend(mark(cs, loop_cond_label), <<JUMPDEST>>)
        c2 == IF cond # None THEN handle_expression(c1, cond)
              ELSE extend(c1, <<PUSH1, 1>>)
        c3 == extend(extend(c2, <<ISZERO>>), <<PUSH1, 0>>)
    IN  extend(placeholder(c3, loop_end_label), <<JUMPI>>)

(* handle_for_statement, lines 290-300: the back edge and the end *)
for_end(cs, loop_cond_label, loop_end_label) ==
    LET c1 == placeholder(extend(cs, <<PUSH1, 0>>), loop_cond_label)
        c2 == extend(mark(extend(c1, <<JUMP>>), loop_end_label), <<JUMPDEST>>)
    IN  pop_loop(c2)

(* handle_for_statement that lowers the increment before the body *)
handle_for_statement_next_first(cs, node) ==
    LET n == Len(cs.jump_placeholders)
        loop_cond_label == label("loop_cond_", n)
        loop_end_label == label("loop_end_", n + 1)
        c1 == push_loop(cs, loop_cond_label, loop_end_label)
        c2 == for_cond(for_init(c1, node[2]), node[3], loop_cond_label,
                       loop_end_label)
        c3 == C_block(for_next(c2, node[4]), node[5])
    IN  for_end(c3, loop_cond_label, loop_end_label)

handle_for_statement(cs, node) ==
    LET n == Len(cs.jump_placeholders)
        loop_cond_label == label("loop_cond_", n)
        loop_end_label == label("loop_end_", n + 1)
        c1 == push_loop(cs, loop_cond_label, loop_end_label)
        c2 == for_cond(for_init(c1, node[2]), node[3], loop_cond_label,
                       loop_end_label)
        c3 == for_next(C_block(c2, node[5]), node[4])
    IN  for_end(c3, loop_cond_label, loop_end_label)

(* for expr in stmt.exprs: the assignments only *)
RECURSIVE expr_list(_, _)
expr_list(cs, exprs) ==
    IF exprs = <<>> \/ cs.error # "" THEN cs
    ELSE LET expr == Head(exprs)
             c1 == IF expr[1] = "Assignment"
                   THEN store_variable(handle_expression(cs, expr[3]),
                                       expr[2][2])
                   ELSE cs
         IN  expr_list(c1, Tail(exprs))

(* handle_statement: the if/elif chain, which has no else *)
C_handle_statement(cs, stmt) ==
    IF cs.error # "" THEN cs
    ELSE CASE stmt[1] = "If" -> handle_if_statement(cs, stmt)
           [] stmt[1] = "For" -> handle_for_statement(cs, stmt)
           [] stmt[1] = "While" -> handle_while_statement(cs, stmt)
           [] stmt[1] = "Break" -> C_handle_break(cs)
           [] stmt[1] = "Decl" ->
                IF stmt[3] = None THEN cs
                ELSE store_variable(handle_expression(cs, stmt[3]), stmt[2])
           [] stmt[1] = "Assignment" ->
                store_variable(handle_expression(cs, stmt[3]), stmt[2][2])
           [] stmt[1] = "ExprList" -> expr_list(cs, stmt[2])
           [] stmt[1] = "UnaryOp" -> handle_expression(cs, stmt)
           [] OTHER -> cs

(* CCompiler.compile on the block items of main (lines 333-348) *)
C_compile(main) ==
    extend(resolve(block_items(NewCompilation, main), 1), <<STOP>>)

-----------------------------------------------------------------------------
(* compilers/JSCompiler.py: JSCompiler.compile, the JavaScript front end,   *)
(* on the nodes esprima gives; a node starts with its type.                 *)
Literal(value) == <<"Literal", value>>
BooleanLiteral(value) == <<"Literal", value, "bool">>
Identifier(name) == <<"Identifier", name>>
BinaryExpression(operator, left, right) ==
    <<"BinaryExpression", operator, left, right>>
UnaryExpression(operator, argument) ==
    <<"UnaryExpression", operator, argument>>
UpdateExpression(operator, argument) ==
    <<"UpdateExpression", operator, argument>>
AssignmentExpression(left, right) == <<"AssignmentExpression", left, right>>
ExpressionStatement(expression) == <<"ExpressionStatement", expression>>
VariableDeclarator(id, init) == <<"VariableDeclarator", id, init>>
VariableDeclaration(declarations) == <<"VariableDeclaration", declarations>>
BlockStatement(body) == <<"BlockStatement", body>>
IfStatement(test, consequent, alternate) ==
    <<"IfStatement", test, consequent, alternate>>
ForStatement(init, test, update, body) ==
    <<"ForStatement", init, test, update, body>>
WhileStatement(test, body) == <<"WhileStatement", test, body>>
BreakStatement == <<"BreakStatement">>
ContinueStatement == <<"ContinueStatement">>
EmptyStatement == <<"EmptyStatement">>

JSBinaryOpcodes ==
    [s \in {"+", "-", "*", "/", ">", "<", "==", ">=", "<="} |->
        CASE s = "+" -> ADD [] s = "-" -> SUB [] s = "*" -> MUL
          [] s = "/" -> DIV [] s = ">" -> GT [] s = "<" -> LT [] s = "==" -> EQ
          [] s = ">=" -> GTE [] s = "<=" -> LTE]

(* 1 if expr.value else 0 for a bool, expr.value for a number *)
literal_value(expr) ==
    IF Len(expr) = 3 THEN (IF expr[2] THEN 1 ELSE 0) ELSE expr[2]

(* Reading .type of a child that esprima left None is an AttributeError *)
RECURSIVE JS_compile_expression(_, _)
JS_compile_expression(cs, expr) ==
    IF cs.error # "" THEN cs
    ELSE CASE expr = None -> RaiseIn(cs, "AttributeError")
           [] expr[1] = "Literal" -> extend(cs, <<PUSH1, literal_value(expr)>>)
           [] expr[1] = "Identifier" ->
                LET c1 == get_storage_slot(cs, expr[2])
                IN  extend(c1, <<PUSH1, c1.slot, SLOAD>>)
           [] expr[1] = "BinaryExpression" ->
                LET c1 == JS_compile_expression(cs, expr[3])
                    c2 == JS_compile_expression(c1, expr[4])
                IN  IF expr[2] \in DOMAIN JSBinaryOpcodes
                    THEN extend(c2, <<JSBinaryOpcodes[expr[2]]>>)
                    ELSE c2
           [] expr[1] = "UnaryExpression" /\ expr[2] = "!" ->
                extend(JS_compile_expression(cs, expr[3]), <<ISZERO>>)
           [] OTHER -> cs

RECURSIVE JS_handle_statement(_, _)

(* for stmt in body: handle_statement(stmt) *)
RECURSIVE JS_body(_, _)
JS_body(cs, body) ==
    IF body = <<>> \/ cs.error # "" THEN cs
    ELSE JS_body(JS_handle_statement(cs, Head(body)), Tail(body))

JS_handle_if_statement(cs, node) ==
    LET if_id == Len(cs.jump_placeholders)
        else_label == label("else_", if_id)
        end_label == label("end_", if_id)
        c1 == JS_compile_expression(cs, node[2])
        c2 == placeholder(extend(extend(c1, <<ISZERO>>), <<PUSH1, 0>>),
                          else_label)
        c3 == JS_handle_statement(extend(c2, <<JUMPI>>), node[3])
    IN  IF node[4] # None
        THEN LET c4 == placeholder(extend(c3, <<PUSH1, 0>>), end_label)
                 c5 == extend(mark(extend(c4, <<JUMP>>), else_label),
                              <<JUMPDEST>>)
                 c6 == JS_handle_statement(c5, node[4])
             IN  extend(mark(c6, end_label), <<JUMPDEST>>)
        ELSE extend(mark(c3, else_label), <<JUMPDEST>>)

(* for decl in node.declarations: if decl.init: ... *)
RECURSIVE handle_variable_declaration(_, _)
handle_variable_declaration(cs, declarations) ==
    IF declarations = <<>> \/ cs.error # "" THEN cs
    ELSE LET decl == Head(declarations)
             c1 == IF decl[3] = None THEN cs
                   ELSE store_variable(JS_compile_expression(cs, decl[3]),
                                       decl[2][2])
         IN  handle_variable_declaration(c1, Tail(declarations))

handle_assignment(cs, node) ==
    LET c1 == JS_compile_expression(cs, node[3])
    IN  IF node[2][1] = "Identifier"
        THEN store_variable(c1, node[2][2])
        ELSE RaiseIn(c1, "NotImplementedError")

(* PUSH1 slot, SLOAD, PUSH1 1, ADD or SUB, PUSH1 slot, SSTORE *)
update_expression(cs, expression) ==
    IF expression[3][1] # "Identifier"
    THEN RaiseIn(cs, "NotImplementedError")
    ELSE step_variable(cs, expression[3][2],
                       IF expression[2] = "++" THEN ADD ELSE SUB)

handle_expression_statement(cs, node) ==
    IF cs.error # "" THEN cs
    ELSE IF node[2][1] = "UpdateExpression"
    THEN update_expression(cs, node[2])
    ELSE IF node[2][1] = "AssignmentExpression"
    THEN handle_assignment(cs, node[2])
    ELSE JS_compile_expression(cs, node[2])

(* handle_for_loop, lines 120-137: an update that is no UpdateExpression is *)
(* handed to handle_expression_statement in a dict, whose attribute         *)
(* expression does not exist: AttributeError.                               *)
for_update(cs, update) ==
    IF cs.error # "" \/ update = None THEN cs
    ELSE IF update[1] = "UpdateExpression"
    THEN update_expression(cs, update)
    ELSE RaiseIn(cs, "AttributeError")

handle_for_loop(cs, node) ==
    IF cs.error # "" THEN cs
    ELSE IF node[2] = None THEN RaiseIn(cs, "AttributeError")
    ELSE IF node[2][1] # "VariableDeclaration" /\ node[3] = None
    THEN RaiseIn(cs, "AttributeError")
    ELSE IF node[2][1] # "VariableDeclaration"
            /\ node[3][1] # "BinaryExpression"
    THEN RaiseIn(cs, "NotImplementedError")
    ELSE LET loop_id == Len(cs.jump_placeholders)
             cond_label == label("for_cond_", loop_id)
             end_label == label("for_end_", loop_id)
             c1 == push_loop(cs, cond_label, end_label)
             c2 == JS_handle_statement(c1, node[2])
             c3 == extend(mark(c2, cond_label), <<JUMPDEST>>)
             c4 == extend(extend(JS_compile_expression(c3, node[3]),
                                 <<ISZERO>>), <<PUSH1, 0>>)
             c5 == extend(placeholder(c4, end_label), <<JUMPI>>)
             c6 == for_update(JS_handle_statement(c5, node[5]), node[4])
             c7 == extend(c6, <<PUSH1,
                                DictGet(c6.label_positions, cond_label, 0),
                                JUMP>>)
         IN  pop_loop(extend(mark(c7, end_label), <<JUMPDEST>>))

handle_while_loop(cs, node) ==
    IF cs.error # "" THEN cs
    ELSE LET loop_id == Len(cs.jump_placeholders)
             start_label == label("while_start_", loop_id)
             end_label == label("while_end_", loop_id)
             c1 == push_loop(cs, start_label, end_label)
             c2 == extend(mark(c1, start_label), <<JUMPDEST>>)
             c3 == extend(extend(JS_compile_expression(c2, node[2]),
                                 <<ISZERO>>), <<PUSH1, 0>>)
             c4 == extend(placeholder(c3, end_label), <<JUMPI>>)
             c5 == JS_handle_statement(c4, node[3])
             c6 == extend(c5, <<PUSH1,
                                DictGet(c5.label_positions, start_label, 0),
                                JUMP>>)
         IN  pop_loop(extend(mark(c6, end_label), <<JUMPDEST>>))

handle_break_statement(cs) ==
    IF cs.error # "" THEN cs
    ELSE IF cs.loop_stack = <<>> THEN RaiseIn(cs, "SyntaxError")
    ELSE LET end_label == cs.loop_stack[Len(cs.loop_stack)][2]
         IN  extend(placeholder(extend(cs, <<PUSH1, 0>>), end_label), <<JUMP>>)

handle_continue_statement(cs) ==
    IF cs.error # "" THEN cs
    ELSE IF cs.loop_stack = <<>> THEN RaiseIn(cs, "SyntaxError")
    ELSE LET start_label == cs.loop_stack[Len(cs.loop_stack)][1]
         IN  extend(cs, <<PUSH1, DictGet(cs.label_positions, start_label, 0),
                          JUMP>>)

JS_handle_statement(cs, node) ==
    IF cs.error # "" THEN cs
    ELSE CASE node[1] = "IfStatement" -> JS_handle_if_statement(cs, node)
           [] node[1] = "ForStatement" -> handle_for_loop(cs, node)
           [] node[1] = "WhileStatement" -> handle_while_loop(cs, node)
           [] node[1] = "BreakStatement" -> handle_break_statement(cs)
           [] node[1] = "ContinueStatement" -> handle_continue_statement(cs)
           [] node[1] = "VariableDeclaration" ->
                handle_variable_declaration(cs, node[2])
           [] node[1] = "ExpressionStatement" ->
                handle_expression_statement(cs, node)
           [] node[1] = "AssignmentExpression" -> handle_assignment(cs, node)
           [] node[1] = "BlockStatement" -> JS_body(cs, node[2])
           [] OTHER -> RaiseIn(cs, "NotImplementedError")

(* JSCompiler.compile on the body esprima.parseScript gives (256-271) *)
JS_compile(body) ==
    extend(resolve(JS_body(NewCompilation, body), 1), <<STOP>>)

-----------------------------------------------------------------------------
(* The inputs of a run. *)
MaxVal == 2
MaxTail == 1
MaxGas == 8

Push1(v) == <<PUSH1, v>>

(* A byte that is no attribute of class Opcode. *)
NotAnOpcode == CHOOSE b \in 0..255 : b \notin Opcodes

OpBytes == Opcodes \cup {NotAnOpcode}

(* The offset that follows two PUSH1 and one opcode. *)
TailOffset == Len(Push1(0) \o Push1(0)) + 1

(* Operands: small values, and the offset at which a tail starts. *)
Vals == (0..MaxVal) \cup {TailOffset}

(* No operand, one operand, or two (a pushed first, b on top). *)
Prefixes ==
    {<<>>} \cup {Push1(a) : a \in Vals}
           \cup {Push1(a) \o Push1(b) : a \in Vals, b \in Vals}

TailBytes == {STOP, JUMPDEST, NotAnOpcode}

Tails == UNION {[1..n -> TailBytes] : n \in 0..MaxTail}

(* Operands, one byte of any kind, and what follows it. *)
Programs ==
    {<<>>} \cup {p \o <<op>> \o t : p \in Prefixes, op \in OpBytes, t \in Tails}

GasLimits == (0..MaxGas) \cup {DefaultGas}

Addresses == {"contract", "other"}

(* Storage as load_state and update_storage leave it: every key a str. *)
Account(st) == [balance |-> 0, storage |-> st, code |-> <<>>]

InitWorlds ==
    {("other" :> Account(<<<<StrKey(0), 1>>>>)),
     ("other" :> Account(<<<<StrKey(0), 1>>>>))
        @@ ("contract" :> Account(<<<<StrKey(1), 2>>, <<StrKey(2), 1>>>>))}

-----------------------------------------------------------------------------
(* History only: the machine at the start of a loop iteration. *)
NoIteration ==
    [fetched |-> FALSE, pc |-> 0, stack |-> <<>>, storage |-> EmptyDict,
     gas_remaining |-> 0]

Iteration ==
    [fetched |-> TRUE, pc |-> pc, stack |-> stack, storage |-> storage,
     gas_remaining |-> gas_remaining]

(* BVM.__init__ on a loaded WorldState *)
Init ==
    /\ accounts \in InitWorlds
    /\ phase = "idle"
    /\ code = <<>>
    /\ pc = 0
    /\ stack = <<>>
    /\ storage = EmptyDict
    /\ aliased = FALSE
    /\ gas_remaining = 0
    /\ stopped = FALSE
    /\ contract_address = ""
    /\ jumpdests = {}
    /\ opcode = 0
    /\ result = NoResult
    /\ fault = ""
    /\ raised = ""
    /\ gas_limit = 0
    /\ accounts0 = accounts
    /\ writes = <<>>
    /\ path = <<>>
    /\ pre = NoIteration
    /\ prev = [address |-> "", success |-> FALSE, writes |-> <<>>]
    /\ runs = 0
    /\ compilation = NoCompilation

(* BVM.execute, lines 34-39: reset and load *)
Execute(c, g, a) ==
    /\ phase # "running"
    /\ phase' = "running"
    /\ pc' = 0
    /\ stack' = <<>>
    /\ stopped' = FALSE
    /\ contract_address' = a
    /\ storage' = get_storage(accounts, a)
    /\ aliased' = (a \in DOMAIN accounts)
    /\ code' = c
    /\ gas_remaining' = g
    /\ jumpdests' = preprocess_jumpdests(c)
    /\ result' = NoResult
    /\ fault' = ""
    /\ raised' = ""
    /\ gas_limit' = g
    /\ accounts0' = accounts
    /\ writes' = <<>>
    /\ path' = <<>>
    /\ pre' = NoIteration
    /\ prev' = [address |-> contract_address,
                success |-> (phase = "returned" /\ result.success),
                writes |-> writes]
    /\ runs' = runs + 1
    /\ UNCHANGED <<accounts, opcode, compilation>>

(* The loop condition of execute, line 44 *)
Looping == phase = "running" /\ ~stopped /\ pc < Len(code)

(* One iteration that raises OutOfGasError (lines 45-51, 63-73) *)
OutOfGas ==
    /\ Looping
    /\ LET op == code[pc + 1]
           gas_cost == get_opcode_gas(op)
       IN  /\ gas_insufficient(gas_remaining, gas_cost)
           /\ opcode' = op
           /\ fault' = "OutOfGasError"
           /\ result' = FailureResult(OutOfGasMessage(gas_cost, gas_remaining),
                                      stack, storage, pc, gas_remaining, op)
    /\ phase' = "returned"
    /\ pre' = Iteration
    /\ UNCHANGED <<accounts, code, pc, stack, storage, aliased, gas_remaining,
                   stopped, contract_address, jumpdests, raised, gas_limit,
                   accounts0, writes, path, prev, runs, compilation>>

(* The key and value an SSTORE at this stack writes *)
PendingWrite(s) == <<s[Len(s)], s[Len(s) - 1]>>

(* One iteration that pays for and dispatches the opcode (lines 45-55), and *)
(* the except clause when execute_opcode raises a VMException (63-73).      *)
Dispatch ==
    /\ Looping
    /\ LET op == code[pc + 1]
           gas_cost == get_opcode_gas(op)
           gas == gas_remaining - gas_cost
           m == execute_opcode(Machine(pc + 1, stack, storage, stopped),
                               op, code, jumpdests)
       IN  /\ ~gas_insufficient(gas_remaining, gas_cost)
           /\ opcode' = op
           /\ gas_remaining' = gas
           /\ pc' = m.pc
           /\ stack' = m.stack
           /\ storage' = m.storage
           /\ stopped' = m.stopped
           /\ accounts' = IF aliased
                          THEN [accounts EXCEPT
                                   ![contract_address].storage = m.storage]
                          ELSE accounts
           /\ writes' = IF op = SSTORE /\ m.exc = ""
                        THEN Append(writes, PendingWrite(stack))
                        ELSE writes
           /\ path' = Append(path, pc)
           /\ phase' = IF m.exc = "" THEN "running"
                       ELSE IF m.exc \in VMExceptions THEN "returned"
                       ELSE "raised"
           /\ fault' = IF m.exc \in VMExceptions THEN m.exc ELSE ""
           /\ raised' = IF m.exc \in VMExceptions THEN "" ELSE m.exc
           /\ result' = IF m.exc \in VMExceptions
                        THEN FailureResult(m.msg, m.stack, m.storage, m.pc,
                                           gas, op)
                        ELSE NoResult
    /\ pre' = Iteration
    /\ UNCHANGED <<code, aliased, contract_address, jumpdests, gas_limit,
                   accounts0, prev, runs, compilation>>

(* The loop exit that commits only after a STOP *)
Commit_after_STOP_only ==
    /\ phase = "running"
    /\ ~Looping
    /\ accounts' = IF stopped
                   THEN update_storage(accounts, contract_address, storage)
                   ELSE accounts
    /\ aliased' = FALSE
    /\ result' = SuccessResult(stack, storage, gas_remaining)
    /\ phase' = "returned"
    /\ UNCHANGED <<code, pc, stack, storage, gas_remaining, stopped,
                   contract_address, jumpdests, opcode, fault, raised,
                   gas_limit, accounts0, writes, path, pre, prev, runs,
                   compilation>>

(* The loop exit: update_storage and the success dict (lines 56-62) *)
Commit ==
    /\ phase = "running"
    /\ ~Looping
    /\ accounts' = update_storage(accounts, contract_address, storage)
    /\ aliased' = FALSE
    /\ result' = SuccessResult(stack, storage, gas_remaining)
    /\ phase' = "returned"
    /\ UNCHANGED <<code, pc, stack, storage, gas_remaining, stopped,
                   contract_address, jumpdests, opcode, fault, raised,
                   gas_limit, accounts0, writes, path, pre, prev, runs,
                   compilation>>

(* One call of execute on a fresh BVM *)
FirstRun ==
    /\ runs = 0
    /\ \E c \in Programs, g \in GasLimits, a \in Addresses : Execute(c, g, a)

Next == FirstRun \/ OutOfGas \/ Dispatch \/ Commit

Spec == Init /\ [][Next]_vars

-----------------------------------------------------------------------------
(* Two runs in a row on one BVM and WorldState: a store, then a load. *)
StorePrograms ==
    {Push1(v) \o Push1(k) \o <<SSTORE>> \o t :
        v \in 0..MaxVal, k \in 0..MaxVal, t \in Tails}

LoadPrograms == {Push1(k) \o <<SLOAD>> \o t : k \in 0..MaxVal, t \in Tails}

RunGasLimits == {MaxGas, DefaultGas}

StoreRun ==
    /\ runs = 0
    /\ \E c \in StorePrograms, g \in RunGasLimits, a \in Addresses :
          Execute(c, g, a)

LoadRun ==
    /\ runs = 1
    /\ \E c \in LoadPrograms, g \in RunGasLimits, a \in Addresses :
          Execute(c, g, a)

NextRuns == StoreRun \/ LoadRun \/ OutOfGas \/ Dispatch \/ Commit

SpecRuns == Init /\ [][NextRuns]_vars

-----------------------------------------------------------------------------
(* A loop that leaves LoopPushes more entries on the stack each time round: *)
(* JUMPDEST, LoopPushes times PUSH1 v, PUSH1 0, JUMP.                       *)
LoopPushes == 8

RECURSIVE Pushes(_, _)
Pushes(n, v) == IF n = 0 THEN <<>> ELSE Push1(v) \o Pushes(n - 1, v)

PushLoop(v) == <<JUMPDEST>> \o Pushes(LoopPushes, v) \o Push1(0) \o <<JUMP>>

DeepPrograms ==
    {PushLoop(v) : v \in 0..MaxVal}
        \cup {<<op>> : op \in OpBytes}
        \cup {Push1(v) \o <<op>> : v \in 0..MaxVal, op \in OpBytes}

DeepRun ==
    /\ runs = 0
    /\ \E c \in DeepPrograms, g \in RunGasLimits : Execute(c, g, "contract")

NextDeep == DeepRun \/ OutOfGas \/ Dispatch \/ Commit

SpecDeep == Init /\ [][NextDeep]_vars

-----------------------------------------------------------------------------
(* Compiling a source and running the bytecode compile returned. *)
NestIters == 2
MaxLit == 4
MaxStmts == 52

Range(stop) == Call("range", <<stop>>)

(* v = v + 1 *)
Count(v) == Assign(v, BinOp(Name(v), "Add", Num(1)))

RECURSIVE Repeat(_, _)
Repeat(stmt, n) == IF n = 0 THEN <<>> ELSE <<stmt>> \o Repeat(stmt, n - 1)

LoopKinds == {"while", "for"}

(* while 1: break      /      for j in range(NestIters): break *)
BreakingLoop(kind) ==
    IF kind = "while"
    THEN While(Num(1), <<Break>>)
    ELSE For("j", Range(Num(NestIters)), <<Break>>)

(* A loop of NestIters iterations on i whose body is a loop that breaks,    *)
(* followed by a = a + 1.                                                   *)
Nest(outer, inner) ==
    IF outer = "while"
    THEN <<Assign("i", Num(0)),
           While(Compare(Name("i"), "Lt", Num(NestIters)),
                 <<BreakingLoop(inner), Count("a"), Count("i")>>)>>
    ELSE <<For("i", Range(Num(NestIters)),
               <<BreakingLoop(inner), Count("a")>>)>>

NestSources == {Nest(outer, inner) : outer \in LoopKinds, inner \in LoopKinds}

(* n times x = 1: 5 bytes each, no jump *)
StraightLine(n) == Repeat(Assign("x", Num(1)), n)

StraightSources ==
    {StraightLine(n) : n \in {1, MaxStmts - 1, MaxStmts}}
        \cup {StraightLine(MaxStmts)
                 \o <<While(Num(0), <<Assign("x", Num(2))>>)>>}

(* x += 1, x = -1, x = 5 % 2, if x != 0: x = 1, for i in n: pass *)
UnsupportedSources ==
    {<<AugAssign("x", "Add", Num(1))>>,
     <<Assign("x", UnaryOp("USub", Num(1)))>>,
     <<Assign("x", BinOp(Num(5), "Mod", Num(2)))>>,
     <<If(Compare(Name("x"), "NotEq", Num(0)), <<Assign("x", Num(1))>>, <<>>)>>,
     <<For("i", Name("n"), <<Pass>>)>>}

(* x = l + r; if x > t: x = 1; else: x = 0 *)
IfElse(l, r, t) ==
    <<Assign("x", BinOp(Num(l), "Add", Num(r))),
      If(Compare(Name("x"), "Gt", Num(t)),
         <<Assign("x", Num(1))>>, <<Assign("x", Num(0))>>)>>

IfElseSources ==
    {IfElse(l, r, t) : l \in 0..MaxLit, r \in 0..MaxLit, t \in 0..MaxLit}

(* break and continue where no while encloses them *)
NoLoopSources ==
    {<<Break>>, <<Continue>>,
     <<If(Num(1), <<Break>>, <<>>)>>,
     <<If(Num(0), <<>>, <<Continue>>)>>,
     <<Assign("x", Num(1)), Break>>,
     <<While(Num(0), <<Break>>), Continue>>,
     <<For("i", Range(Num(1)), <<Break>>)>>,
     <<For("i", Range(Num(1)), <<Continue>>)>>}

(* continue and break in a while *)
WhileSources ==
    {<<While(Compare(Name("i"), "Lt", Num(n)),
             <<Count("i"),
               If(Compare(Name("i"), "Eq", Num(1)), <<Continue>>, <<>>),
               If(Compare(Name("a"), "GtE", Num(1)), <<Break>>, <<>>),
               Count("a")>>)>> : n \in 0..NestIters}

(* while i < NestIters: i = i + 1 [break]                                   *)
(* while j < NestIters: j = j + 1                                           *)
SeqWhile(body) ==
    <<While(Compare(Name("i"), "Lt", Num(NestIters)), <<Count("i")>> \o body),
      While(Compare(Name("j"), "Lt", Num(NestIters)), <<Count("j")>>)>>

SeqWhileSources == {SeqWhile(<<>>), SeqWhile(<<Break>>)}

(* An if, a while and a for-range that end near offset 256 *)
LongTails ==
    {If(Num(0), <<Pass>>, <<>>),
     While(Num(0), <<Assign("x", Num(2))>>),
     For("i", Range(Num(1)), <<Pass>>)}

LongSources ==
    {StraightLine(n) \o <<t>> : n \in (MaxStmts - 8)..MaxStmts, t \in LongTails}

PySources ==
    NestSources \cup StraightSources \cup UnsupportedSources
        \cup IfElseSources \cup NoLoopSources \cup WhileSources
        \cup SeqWhileSources \cup LongSources

(* for (i = 0; i < n; next) { s = s + i; } *)
ForSum(n, next) ==
    <<CFor(Assignment(ID("i"), Constant(0)),
           BinaryOp("<", ID("i"), Constant(n)),
           next,
           Compound(<<Assignment(ID("s"), BinaryOp("+", ID("s"), ID("i")))>>))>>

(* i = i + 1      /      i++ *)
Increments ==
    {Assignment(ID("i"), BinaryOp("+", ID("i"), Constant(1))),
     UnaryOp("p++", ID("i"))}

ForSumSources == {ForSum(n, next) : n \in 0..MaxLit, next \in Increments}

(* int x = 2; if (x > 1) { x = 1; } else { x = 0; }                         *)
(* while (1) { ++a; break; }         for (;;) break;                        *)
(* if (0) x = 1;       break;        while (0) { }                          *)
(* for (int i = 0; i < 2; i = i + 1, a = 1) { x = 1; }                      *)
CSources ==
    ForSumSources
        \cup {<<Decl("x", Constant(2)),
                If(BinaryOp(">", ID("x"), Constant(1)),
                   Compound(<<Assignment(ID("x"), Constant(1))>>),
                   Compound(<<Assignment(ID("x"), Constant(0))>>))>>,
              <<While(Constant(1), Compound(<<UnaryOp("++", ID("a")), Break>>))>>,
              <<CFor(None, None, None, Break)>>,
              <<If(Constant(0), Assignment(ID("x"), Constant(1)), None)>>,
              <<Break>>,
              <<While(Constant(0), Compound(<<>>))>>,
              <<CFor(DeclList(<<Decl("i", Constant(0))>>),
                     BinaryOp("<", ID("i"), Constant(2)),
                     ExprList(<<Assignment(ID("i"),
                                           BinaryOp("+", ID("i"), Constant(1))),
                                Assignment(ID("a"), Constant(1))>>),
                     Compound(<<Assignment(ID("x"), Constant(1))>>))>>}

(* s = s + i; *)
AddTo(v, w) ==
    ExpressionStatement(
        AssignmentExpression(Identifier(v),
            BinaryExpression("+", Identifier(v), Identifier(w))))

(* for (var i = 0; i < n; update) { s = s + i; } *)
JSForSum(n, update) ==
    <<ForStatement(
          VariableDeclaration(<<VariableDeclarator(Identifier("i"), Literal(0))>>),
          BinaryExpression("<", Identifier("i"), Literal(n)),
          update,
          BlockStatement(<<AddTo("s", "i")>>))>>

(* while (true) { a++; break; }      if (!x) { x = 1; }                     *)
(* if (x >= 1) x = 0; else x = 1;    break;       ;                         *)
(* for (var i = 0; i < 2; i = i + 1) { s = s + i; }                         *)
(* while (i <= 1) { i++; if (i == 1) continue; a++; }                       *)
JSSources ==
    {JSForSum(n, UpdateExpression("++", Identifier("i"))) : n \in 0..NestIters}
        \cup {<<WhileStatement(BooleanLiteral(TRUE),
                    BlockStatement(
                        <<ExpressionStatement(
                              UpdateExpression("++", Identifier("a"))),
                          BreakStatement>>))>>,
              <<IfStatement(UnaryExpression("!", Identifier("x")),
                    BlockStatement(
                        <<ExpressionStatement(
                              AssignmentExpression(Identifier("x"),
                                                   Literal(1)))>>),
                    None)>>,
              <<IfStatement(BinaryExpression(">=", Identifier("x"), Literal(1)),
                    ExpressionStatement(
                        AssignmentExpression(Identifier("x"), Literal(0))),
                    ExpressionStatement(
                        AssignmentExpression(Identifier("x"), Literal(1))))>>,
              <<BreakStatement>>,
              <<EmptyStatement>>,
              JSForSum(2, AssignmentExpression(Identifier("i"),
                              BinaryExpression("+", Identifier("i"),
                                               Literal(1)))),
              <<WhileStatement(
                    BinaryExpression("<=", Identifier("i"), Literal(1)),
                    BlockStatement(
                        <<ExpressionStatement(
                              UpdateExpression("++", Identifier("i"))),
                          IfStatement(
                              BinaryExpression("==", Identifier("i"),
                                               Literal(1)),
                              ContinueStatement, None),
                          ExpressionStatement(
                              UpdateExpression("++", Identifier("a")))>>))>>}

machine ==
    <<accounts, phase, code, pc, stack, storage, aliased, gas_remaining,
      stopped, contract_address, jumpdests, opcode, result, fault, raised,
      gas_limit, accounts0, writes, path, pre, prev, runs>>

(* One call of Compiler.compile *)
PyCompile ==
    /\ compilation = NoCompilation
    /\ runs = 0
    /\ \E source \in PySources :
          compilation' = Compiled("python", source, compile(source))
    /\ UNCHANGED machine

(* One call of CCompiler.compile *)
CCompile ==
    /\ compilation = NoCompilation
    /\ runs = 0
    /\ \E source \in CSources :
          compilation' = Compiled("c", source, C_compile(source))
    /\ UNCHANGED machine

(* One call of JSCompiler.compile *)
JSCompile ==
    /\ compilation = NoCompilation
    /\ runs = 0
    /\ \E source \in JSSources :
          compilation' = Compiled("js", source, JS_compile(source))
    /\ UNCHANGED machine

(* execute on the bytecode the call of compile returned *)
RunCompiled ==
    /\ compilation.returned
    /\ runs = 0
    /\ \E g \in RunGasLimits, a \in Addresses :
          Execute(compilation.bytecode, g, a)

NextCompile ==
    PyCompile \/ CCompile \/ JSCompile \/ RunCompiled \/ OutOfGas \/ Dispatch
        \/ Commit

SpecCompile == Init /\ [][NextCompile]_vars

-----------------------------------------------------------------------------
(* Runs that jump: a JUMP or a JUMPI, then a PUSH1 whose operand is any of  *)
(* TailBytes, JUMPDEST among them, then a tail.                             *)
JumpOffsets == 0..(Len(Push1(0) \o Push1(0) \o <<JUMPI>> \o Push1(0)) + MaxTail)

JumpPrograms ==
    {Push1(dest) \o <<JUMP>> \o Push1(b) \o t :
        dest \in JumpOffsets, b \in TailBytes, t \in Tails}
    \cup {Push1(condition) \o Push1(dest) \o <<JUMPI>> \o Push1(b) \o t :
              condition \in 0..1, dest \in JumpOffsets, b \in TailBytes,
              t \in Tails}

JumpRun ==
    /\ runs = 0
    /\ \E c \in JumpPrograms, g \in RunGasLimits, a \in Addresses :
          Execute(c, g, a)

NextJumps == JumpRun \/ OutOfGas \/ Dispatch \/ Commit

SpecJumps == Init /\ [][NextJumps]_vars

-----------------------------------------------------------------------------
(* A for loop whose body is a continue, compiled by JSCompiler.compile and  *)
(* run with gas for the stores of LoopIters iterations and more.            *)
LoopIters == 2
LoopGas == 20000

(* i = 0 and var i = 0, as esprima gives them for the init of a for *)
ForInits ==
    {AssignmentExpression(Identifier("i"), Literal(0)),
     VariableDeclaration(<<VariableDeclarator(Identifier("i"), Literal(0))>>)}

(* for (init; i < n; i++) { continue; } *)
ForContinue(init, n) ==
    <<ForStatement(init,
                   BinaryExpression("<", Identifier("i"), Literal(n)),
                   UpdateExpression("++", Identifier("i")),
                   BlockStatement(<<ContinueStatement>>))>>

ForContinueSources ==
    {ForContinue(init, n) : init \in ForInits, n \in 0..LoopIters}

JSCompileContinue ==
    /\ compilation = NoCompilation
    /\ runs = 0
    /\ \E source \in ForContinueSources :
          compilation' = Compiled("js", source, JS_compile(source))
    /\ UNCHANGED machine

RunLoop ==
    /\ compilation.returned
    /\ runs = 0
    /\ \E a \in Addresses : Execute(compilation.bytecode, LoopGas, a)

NextContinue == JSCompileContinue \/ RunLoop \/ OutOfGas \/ Dispatch \/ Commit

SpecContinue == Init /\ [][NextContinue]_vars

-----------------------------------------------------------------------------
(* Nestings and sequences of if, while, for-range, break and continue,      *)
(* compiled by Compiler.compile and run with gas for three stores and the   *)
(* turns of a short loop.                                                   *)
ShapeGas == 17000

(* break, continue, a = a + 1, nothing *)
Leaves == {<<Break>>, <<Continue>>, <<Count("a")>>, <<>>}

ShapeTest == Compare(Name("a"), "Lt", Num(1))

(* A leaf, or an if, a while or a for-range around a leaf *)
Inner ==
    Leaves
        \cup {<<If(ShapeTest, l, <<>>)>> : l \in Leaves}
        \cup {<<If(ShapeTest, <<>>, l)>> : l \in Leaves}
        \cup {<<While(ShapeTest, l)>> : l \in Leaves}
        \cup {<<For("j", Range(Num(1)), l)>> : l \in Leaves}

(* Two of these in sequence, alone or as the body of a loop or of an if *)
ShapeSources ==
    LET Bodies == {l \o r : l \in Inner, r \in Inner}
    IN  Bodies
            \cup {<<While(ShapeTest, b)>> : b \in Bodies}
            \cup {<<For("i", Range(Num(1)), b)>> : b \in Bodies}
            \cup {<<If(ShapeTest, b, <<Count("a")>>)>> : b \in Bodies}

PyCompileShape ==
    /\ compilation = NoCompilation
    /\ runs = 0
    /\ \E source \in ShapeSources :
          compilation' = Compiled("python", source, compile(source))
    /\ UNCHANGED machine

RunShape ==
    /\ compilation.returned
    /\ runs = 0
    /\ Execute(compilation.bytecode, ShapeGas, "contract")

NextShapes == PyCompileShape \/ RunShape \/ OutOfGas \/ Dispatch \/ Commit

SpecShapes == Init /\ [][NextShapes]_vars

-----------------------------------------------------------------------------
(* What the claims speak of. *)
Returned == phase = "returned"
Succeeded == Returned /\ result.success
Faulted == Returned /\ ~result.success

(* The last loop iteration paid for its opcode and dispatched it. *)
Dispatched == pre.fetched /\ fault # "OutOfGasError"

Top(s) == s[Len(s)]
DropTop(s, n) == SubSeq(s, 1, Len(s) - n)

(* The integer keys of the SSTOREs in ws, and the last value stored under k *)
WrittenKeys(ws) == {ws[i][1] : i \in 1..Len(ws)}
LastValue(ws, k) ==
    LET I == {i \in 1..Len(ws) : ws[i][1] = k}
    IN  ws[CHOOSE i \in I : \A j \in I : j <= i][2]

(* The integers that are keys of d, as int or as str *)
KeyNumbers(d) == {key[2] : key \in DictKeys(d)}

(* What dict d holds for the integer k: <<TRUE, v>> for the value v of the  *)
(* last item whose key is k or str(k), <<FALSE, 0>> when there is none.     *)
Held(d, k) ==
    LET I == {i \in 1..Len(d) : d[i][1][2] = k}
    IN  IF I = {} THEN <<FALSE, 0>>
        ELSE <<TRUE, d[CHOOSE i \in I : \A j \in I : j <= i][2]>>

StorageNow == get_storage(accounts, contract_address)
StorageBefore == get_storage(accounts0, contract_address)

(* C1: atomicity on fault.  Whenever execute has returned success=false,    *)
(* get_storage(address) is what it was when the run started.                *)
C1_AtomicOnFault == Faulted => StorageNow = StorageBefore

(* C2: cross-run persistence.  When the run before this one was on the same *)
(* address and halted successfully having stored v under key k, an SLOAD of *)
(* k in this run (which has stored nothing under k) pushes v.               *)
C2_CrossRunPersistence ==
    ( /\ runs = 2
      /\ prev.success
      /\ prev.address = contract_address
      /\ Dispatched
      /\ opcode = SLOAD
      /\ pre.stack # <<>>
      /\ Top(pre.stack) \in WrittenKeys(prev.writes)
      /\ Top(pre.stack) \notin WrittenKeys(writes) )
    => /\ fault = ""
       /\ stack = Append(DropTop(pre.stack, 1),
                         LastValue(prev.writes, Top(pre.stack)))

C4_DivModByZero ==
    ( /\ Dispatched
      /\ opcode \in {DIV, MOD}
      /\ Len(pre.stack) >= 2
      /\ Top(pre.stack) = 0 )
    => /\ fault = ""
       /\ raised = ""
       /\ stack = Append(DropTop(pre.stack, 2), 0)

(* C5 as claimed: a JUMP, and a JUMPI whatever its condition, whose popped  *)
(* destination is not in the jump-destination set faults with invalid-jump. *)
C5_InvalidJumpAlwaysFaults ==
    /\ ( /\ Dispatched
         /\ opcode = JUMP
         /\ Len(pre.stack) >= 1
         /\ Top(pre.stack) \notin jumpdests )
       => fault = "InvalidJumpError"
    /\ ( /\ Dispatched
         /\ opcode = JUMPI
         /\ Len(pre.stack) >= 2
         /\ Top(pre.stack) \notin jumpdests )
       => fault = "InvalidJumpError"

(* C5 as amended: a JUMP, and a JUMPI whose condition is not 0, whose       *)
(* popped destination is not in the jump-destination set faults with        *)
(* invalid-jump; a JUMPI whose condition is 0 pops both operands and falls  *)
(* through without a fault, whatever its destination.                       *)
C5_InvalidJumpFaultsWhenTaken ==
    /\ ( /\ Dispatched
         /\ opcode = JUMP
         /\ Len(pre.stack) >= 1
         /\ Top(pre.stack) \notin jumpdests )
       => /\ fault = "InvalidJumpError"
          /\ Faulted
    /\ ( /\ Dispatched
         /\ opcode = JUMPI
         /\ Len(pre.stack) >= 2
         /\ Top(pre.stack) \notin jumpdests )
       => IF Top(DropTop(pre.stack, 1)) # 0
          THEN fault = "InvalidJumpError" /\ Faulted
          ELSE /\ fault = ""
               /\ raised = ""
               /\ pc = pre.pc + 1
               /\ stack = DropTop(pre.stack, 2)

(* C5 witness: a JUMPI with a nonzero condition and a destination outside   *)
(* the jump-destination set has faulted with invalid-jump.                  *)
C5_Witness ==
    /\ Dispatched
    /\ opcode = JUMPI
    /\ Len(pre.stack) >= 2
    /\ Top(pre.stack) \notin jumpdests
    /\ Top(DropTop(pre.stack, 1)) # 0
    /\ jumpdests # {}
    /\ fault = "InvalidJumpError"

(* C6: every run ends in a structured result.  No exception leaves execute, *)
(* and what execute returns is the success record or the failure record     *)
(* with error, stack, storage, pc, gas_remaining and opcode.                *)
C6_StructuredResult ==
    /\ phase # "raised"
    /\ Returned =>
          \/ /\ result.success = TRUE
             /\ DOMAIN result = {"success", "stack", "storage", "gas_remaining"}
          \/ /\ result.success = FALSE
             /\ DOMAIN result = {"success", "error", "stack", "storage", "pc",
                                 "gas_remaining", "opcode"}

(* C7: out-of-gas precedes effects.  An iteration ends in the out-of-gas    *)
(* fault exactly when the cost of the opcode at the program counter exceeds *)
(* the remaining gas, and then the stack, the storage (the machine's and    *)
(* the world state's), the program counter and the remaining gas, in the    *)
(* machine and in the failure record, are those the iteration began with.   *)
C7_OutOfGasPrecedesEffects ==
    pre.fetched =>
        /\ (get_opcode_gas(code[pre.pc + 1]) > pre.gas_remaining)
              <=> (fault = "OutOfGasError")
        /\ fault = "OutOfGasError" =>
              /\ Faulted
              /\ opcode = code[pre.pc + 1]
              /\ stack = pre.stack
              /\ storage = pre.storage
              /\ pc = pre.pc
              /\ gas_remaining = pre.gas_remaining
              /\ result.stack = pre.stack
              /\ result.storage = pre.storage
              /\ result.pc = pre.pc
              /\ result.gas_remaining = pre.gas_remaining

(* C7 witness: out of gas after earlier instructions of the run had pushed  *)
(* operands and spent gas.                                                  *)
C7_Witness ==
    /\ fault = "OutOfGasError"
    /\ pre.stack # <<>>
    /\ 0 < pre.gas_remaining
    /\ pre.gas_remaining < gas_limit

(* The catalog cost of the first n instructions of the path p *)
RECURSIVE PathCost(_, _)
PathCost(p, n) ==
    IF n = 0 THEN 0 ELSE PathCost(p, n - 1) + get_opcode_gas(code[p[n] + 1])

(* The first instruction of p whose cumulative cost exceeds limit *)
FirstExceeding(p, limit) ==
    CHOOSE i \in 1..Len(p) :
        /\ PathCost(p, i) > limit
        /\ \A j \in 1..(i - 1) : PathCost(p, j) <= limit

(* C8: gas exactness.  For a run that halted successfully, with used the    *)
(* sum of the catalog costs along its path: the run with gas_limit = used   *)
(* succeeds along the same path with gas_remaining = 0, and, when the path  *)
(* is not empty, the run with gas_limit = used - 1 ends out of gas at the   *)
(* first instruction of the path whose cumulative cost exceeds used - 1,    *)
(* having dispatched exactly the instructions before it.                    *)
C8_GasExactness ==
    Succeeded =>
        LET used == PathCost(path, Len(path))
            exact == execute(code, used, StorageBefore)
            short == execute(code, used - 1, StorageBefore)
            first == FirstExceeding(path, used - 1)
        IN  /\ gas_remaining = gas_limit - used
            /\ gas_limit = used => result.gas_remaining = 0
            /\ exact.outcome = "success"
            /\ exact.gas_remaining = 0
            /\ exact.dispatched = Len(path)
            /\ path # <<>> =>
                  /\ short.outcome = "OutOfGasError"
                  /\ short.pc = path[first]
                  /\ short.dispatched = first - 1
                  /\ short.gas_remaining = used - 1 - PathCost(path, first - 1)

(* C8 witness: a run given exactly the cost of its path, several            *)
(* instructions long, has succeeded with no gas left.                       *)
C8_Witness ==
    /\ Succeeded
    /\ Len(path) >= 3
    /\ gas_limit > 0
    /\ gas_limit = PathCost(path, Len(path))
    /\ result.gas_remaining = 0

(* The number of values each opcode pops (BVM.execute_opcode) *)
Pops(op) ==
    IF op \in {ADD, SUB, MUL, DIV, MOD, LT, GT, EQ, LTE, GTE, SSTORE, JUMPI}
    THEN 2
    ELSE IF op \in {POP, SLOAD, ISZERO, JUMP} THEN 1 ELSE 0

(* C9: stack bounds.  The depth of the stack is always within 0 and         *)
(* MAX_STACK_DEPTH; an opcode dispatched on a stack with fewer entries than *)
(* it pops faults with stack underflow; a PUSH1 dispatched at depth         *)
(* MAX_STACK_DEPTH faults with stack overflow.                              *)
C9_StackBounds ==
    /\ Len(stack) \in 0..MAX_STACK_DEPTH
    /\ (Dispatched /\ Len(pre.stack) < Pops(opcode))
          => fault = "StackUnderflowError" /\ Faulted
    /\ ( /\ Dispatched
         /\ opcode = PUSH1
         /\ pre.pc + 1 < Len(code)
         /\ Len(pre.stack) = MAX_STACK_DEPTH )
          => fault = "StackOverflowError" /\ Faulted

(* C9 witness: a PUSH1 at depth MAX_STACK_DEPTH has faulted with overflow.  *)
C9_Witness ==
    /\ Dispatched
    /\ opcode = PUSH1
    /\ Len(pre.stack) = MAX_STACK_DEPTH
    /\ Len(stack) = MAX_STACK_DEPTH
    /\ fault = "StackOverflowError"

(* C10: invalid opcode.  The byte an iteration fetched faults with          *)
(* invalid-opcode if and only if it is none of the 20 opcodes of the        *)
(* catalog.                                                                 *)
C10_InvalidOpcodeIffUnknown ==
    pre.fetched => ((fault = "InvalidOpcodeError") <=> (opcode \notin Opcodes))


(* The integer part and the remainder of l by r # 0, by their defining      *)
(* property: l = q * r + m with m between 0 and r, r excluded.              *)
Magnitude(n) == IF n < 0 THEN -n ELSE n
Between(m, r) == IF r > 0 THEN 0 <= m /\ m < r ELSE r < m /\ m <= 0
Quotient(l, r) ==
    CHOOSE q \in (-Magnitude(l))..Magnitude(l) : Between(l - q * r, r)
Remainder(l, r) == l - Quotient(l, r) * r

(* l OP r for the opcodes whose operands do not commute *)
LeftOpRight(op, l, r) ==
    CASE op = SUB -> l - r
      [] op = DIV -> Quotient(l, r)
      [] op = MOD -> Remainder(l, r)
      [] op = LT -> Bool(l < r)
      [] op = GT -> Bool(l > r)
      [] op = LTE -> Bool(l <= r)
      [] op = GTE -> Bool(l >= r)

(* C11: operand order.  When SUB, DIV, MOD, LT, GT, LTE or GTE was          *)
(* dispatched on a stack whose two top entries were l (below) and r (top),  *)
(* r not 0 for DIV and MOD, nothing was raised and the two entries were     *)
(* replaced by l OP r.                                                      *)
C11_OperandOrder ==
    ( /\ Dispatched
      /\ opcode \in {SUB, DIV, MOD, LT, GT, LTE, GTE}
      /\ Len(pre.stack) >= 2
      /\ opcode \in {DIV, MOD} => Top(pre.stack) # 0 )
    => /\ fault = ""
       /\ raised = ""
       /\ stack = Append(DropTop(pre.stack, 2),
                         LeftOpRight(opcode, Top(DropTop(pre.stack, 1)),
                                     Top(pre.stack)))

(* C11 witness: a DIV of l by r with l > r > 1 has pushed the quotient of l *)
(* by r, which is not the quotient of r by l.                               *)
C11_Witness ==
    /\ Dispatched
    /\ opcode = DIV
    /\ Len(pre.stack) >= 2
    /\ Top(pre.stack) > 1
    /\ Top(DropTop(pre.stack, 1)) > Top(pre.stack)
    /\ stack # <<>>
    /\ Top(stack) >= 2
    /\ fault = ""


(* C12: termination.  A run ends only as Halted or Faulted (execute         *)
(* returns); every dispatched instruction after which the loop goes on has  *)
(* consumed gas; so the number of instructions a run dispatches is at most  *)
(* its gas limit plus the one that ends it.                                 *)
C12_TerminatesHaltedOrFaulted ==
    /\ phase \notin {"idle", "running"} => Returned
    /\ (Dispatched /\ phase = "running" /\ ~stopped)
          => gas_remaining < pre.gas_remaining
    /\ gas_remaining >= 0
    /\ Len(path) <= gas_limit + 1


(* C19: implicit stop.  When the loop of a run ended because the program    *)
(* counter reached the end of the bytecode, no STOP having been executed    *)
(* (the empty bytecode included), execute has returned success=true with    *)
(* the stack, storage and gas the machine ended with, and the result, the   *)
(* gas and the committed storage are those of the same bytecode with a STOP *)
(* appended, run with the same gas on the same storage.                     *)
C19_ImplicitStop ==
    (Returned /\ fault = "" /\ ~stopped) =>
        LET explicit == execute(code \o <<STOP>>, gas_limit, StorageBefore)
        IN  /\ pc >= Len(code)
            /\ result = SuccessResult(stack, storage, gas_remaining)
            /\ explicit.outcome = "success"
            /\ explicit.stack = stack
            /\ explicit.storage = storage
            /\ explicit.gas_remaining = gas_remaining
            /\ explicit.dispatched = Len(path) + 1
            /\ accounts = update_storage(accounts0, contract_address,
                                         explicit.storage)

(* C19 witness: a run of a bytecode without STOP has run off its end after  *)
(* an SSTORE and returned success.                                          *)
C19_Witness ==
    /\ Succeeded
    /\ ~stopped
    /\ STOP \notin {code[i] : i \in 1..Len(code)}
    /\ writes # <<>>
    /\ pc = Len(code)


-----------------------------------------------------------------------------
(* What the claims about the front ends speak of. *)
Last(seq) == seq[Len(seq)]

(* The slot of variable v, and what the machine's storage holds for it *)
SlotOf(v) == sha256_prefix(v) % 256
ValueOf(v) == DictGet(storage, IntKey(SlotOf(v)), 0)

CompiledBy(front_end) == compilation.front_end = front_end

(* C13: break exits only the innermost loop.  Every two-level nesting of   *)
(* while and for-range loops whose inner body is a break compiles, and a    *)
(* successful run of it has executed the statement that follows the inner   *)
(* loop, a = a + 1, once in each of the NestIters iterations of the outer   *)
(* loop.                                                                    *)
C13_BreakExitsInnermost ==
    (CompiledBy("python") /\ compilation.source \in NestSources) =>
        /\ compilation.returned
        /\ Succeeded => ValueOf("a") = NestIters

(* C14: oversize rejected.  No bytecode that compile returns is longer than *)
(* 256 bytes.                                                               *)
C14_OversizeRejected ==
    (CompiledBy("python") /\ compilation.returned)
        => Len(compilation.bytecode) <= 256

(* The statements and expressions that Compiler.compile has a lowering for *)
RECURSIVE HasLowering(_)
HasLowering(expr) ==
    CASE expr[1] \in {"Num", "Name"} -> TRUE
      [] expr[1] = "BinOp" ->
            /\ expr[3] \in {"Add", "Sub", "Mult", "Div"}
            /\ HasLowering(expr[2])
            /\ HasLowering(expr[4])
      [] expr[1] = "Compare" ->
            /\ expr[3] \in {"Gt", "Lt", "Eq", "GtE", "LtE"}
            /\ HasLowering(expr[2])
            /\ HasLowering(expr[4])
      [] OTHER -> FALSE

RECURSIVE AllLowered(_)
AllLowered(body) ==
    \A k \in 1..Len(body) :
        LET node == body[k]
        IN  CASE node[1] = "If" ->
                    HasLowering(node[2]) /\ AllLowered(node[3])
                        /\ AllLowered(node[4])
              [] node[1] = "While" -> HasLowering(node[2]) /\ AllLowered(node[3])
              [] node[1] = "For" ->
                    /\ IsRange(node[3])
                    /\ HasLowering(node[3][3][1])
                    /\ AllLowered(node[4])
              [] node[1] \in {"Break", "Continue"} -> TRUE
              [] node[1] = "Assign" -> HasLowering(node[3])
              [] OTHER -> FALSE

(* C15: unsupported constructs are rejected.  compile returns no bytecode   *)
(* for a source that holds a statement, expression or operator kind that    *)
(* has no lowering.                                                         *)
C15_UnsupportedRejected ==
    (CompiledBy("python") /\ ~AllLowered(compilation.source))
        => ~compilation.returned

(* C16: the if/else round trip.  For x = l + r; if x > t: x = 1; else:      *)
(* x = 0, compiled and run with the default gas on an address whose storage *)
(* is empty: execute returns success=true, exactly one store of a branch    *)
(* follows the store of l + r, that of 1 when l + r > t and that of 0       *)
(* otherwise, and both the machine's storage and the committed storage hold *)
(* that value in the slot of x.                                             *)
C16_IfElseRoundTrip ==
    \A l \in 0..MaxLit, r \in 0..MaxLit, t \in 0..MaxLit :
        ( /\ CompiledBy("python")
          /\ compilation.source = IfElse(l, r, t)
          /\ phase \in {"returned", "raised"}
          /\ gas_limit = DefaultGas
          /\ StorageBefore = EmptyDict )
        => LET branch == IF l + r > t THEN 1 ELSE 0
           IN  /\ compilation.returned
               /\ Succeeded
               /\ writes = <<<<SlotOf("x"), l + r>>, <<SlotOf("x"), branch>>>>
               /\ ValueOf("x") = branch
               /\ Held(StorageNow, SlotOf("x")) = <<TRUE, branch>>

(* C16 witness: x = 2 + 3; if x > 4: x = 1; else: x = 0 has run with the    *)
(* default gas on empty storage and left 1 in the slot of x.                *)
C16_Witness ==
    /\ CompiledBy("python")
    /\ compilation.source = IfElse(2, 3, 4)
    /\ gas_limit = DefaultGas
    /\ StorageBefore = EmptyDict
    /\ Succeeded
    /\ ValueOf("x") = 1

(* A break or continue of body is lowered with loop_stack empty: no while   *)
(* encloses it (handle_while alone pushes a loop context).                  *)
RECURSIVE NoLoopContext(_)
NoLoopContext(body) ==
    \E k \in 1..Len(body) :
        LET node == body[k]
        IN  CASE node[1] \in {"Break", "Continue"} -> TRUE
              [] node[1] = "If" ->
                    NoLoopContext(node[3]) \/ NoLoopContext(node[4])
              [] node[1] = "For" -> NoLoopContext(node[4])
              [] OTHER -> FALSE

(* C18: break and continue outside a loop context.  compile raises and      *)
(* returns no bytecode for a source in which a break or a continue is       *)
(* lowered while no loop context is active.                                 *)
C18_BreakOutsideLoopRaises ==
    (CompiledBy("python") /\ NoLoopContext(compilation.source))
        => /\ ~compilation.returned
           /\ compilation.error # ""
           /\ compilation.bytecode = <<>>

(* C18 witness: if 1: break has been rejected with SyntaxError.             *)
C18_Witness ==
    /\ CompiledBy("python")
    /\ compilation.source = <<If(Num(1), <<Break>>, <<>>)>>
    /\ compilation.error = "SyntaxError"
    /\ ~compilation.returned


(* The stores of for (i = 0; i < n; i = i + 1) { s = s + i; } when s starts *)
(* at 0: i = 0, then in each iteration s first and i after it.              *)
RECURSIVE ForSumWrites(_)
ForSumWrites(n) ==
    IF n = 0 THEN <<<<SlotOf("i"), 0>>>>
    ELSE ForSumWrites(n - 1)
            \o <<<<SlotOf("s"), (n * (n - 1)) \div 2>>, <<SlotOf("i"), n>>>>

(* C17: the C for loop.  for (i = 0; i < n; i = i + 1) { s = s + i; }, for  *)
(* n = 3 and every other n up to MaxLit, compiled by CCompiler.compile and  *)
(* run with the default gas where s is 0 and the slots of i and s differ:   *)
(* execute returns success=true, the stores are those of the update         *)
(* executed once per iteration after the body, and s ends as 0 + 1 + ... +  *)
(* (n - 1), which is 3 for n = 3.                                           *)
C17_ForLoopSum ==
    \A n \in 0..MaxLit, next \in Increments :
        ( /\ CompiledBy("c")
          /\ compilation.source = ForSum(n, next)
          /\ phase \in {"returned", "raised"}
          /\ gas_limit = DefaultGas
          /\ Held(StorageBefore, SlotOf("s"))[2] = 0
          /\ SlotOf("i") # SlotOf("s") )
        => /\ compilation.returned
           /\ Succeeded
           /\ writes = ForSumWrites(n)
           /\ ValueOf("s") = (n * (n - 1)) \div 2
           /\ ValueOf("i") = n
           /\ n > 0 => Held(StorageNow, SlotOf("s"))
                          = <<TRUE, (n * (n - 1)) \div 2>>

(* C17 witness: for (i = 0; i < 3; i = i + 1) { s = s + i; } has run and    *)
(* left s = 3.                                                              *)
C17_Witness ==
    /\ CompiledBy("c")
    /\ compilation.source
          = ForSum(3, Assignment(ID("i"), BinaryOp("+", ID("i"), Constant(1))))
    /\ gas_limit = DefaultGas
    /\ Succeeded
    /\ ValueOf("s") = 3
    /\ Len(writes) = 7

(* C20: STOP terminates compiled code.  The bytecode a front end returns    *)
(* ends with STOP, which follows every jump operand, and every jump         *)
(* placeholder in it holds the offset bound to its label.                   *)
C20_EndsWithSTOP ==
    compilation.returned =>
        /\ compilation.bytecode # <<>>
        /\ Last(compilation.bytecode) = STOP
        /\ \A k \in 1..Len(compilation.jump_placeholders) :
              LET pos == compilation.jump_placeholders[k][1]
                  lbl == compilation.jump_placeholders[k][2]
              IN  /\ pos + 1 < Len(compilation.bytecode)
                  /\ lbl \in DictKeys(compilation.label_positions)
                  /\ compilation.bytecode[pos + 1]
                        = DictGet(compilation.label_positions, lbl, 0)

(* C20 witness: compile has returned bytecode with resolved placeholders    *)
(* that ends with STOP, and a run of it has stopped at that STOP.           *)
C20_Witness ==
    /\ CompiledBy("python")
    /\ compilation.returned
    /\ Len(compilation.jump_placeholders) >= 2
    /\ Last(compilation.bytecode) = STOP
    /\ Succeeded
    /\ stopped
    /\ pc = Len(code)


(* The offset of the JUMPDEST that ends the first statement of a source,    *)
(* a loop: the byte before the STOP when that statement is compiled alone.  *)
OwnEnd(source) == Len(compile(<<Head(source)>>).bytecode) - 2

(* The operand that the k-th recorded placeholder holds in the bytecode *)
Operand(k) == compilation.bytecode[compilation.jump_placeholders[k][1] + 1]

(* C21: each loop exits to its own end.  For two while loops in sequence    *)
(* at the same depth, the exit jump of the first loop and a break in it are *)
(* patched to the JUMPDEST that follows the first loop's back-edge jump, so *)
(* a successful run goes on to the second loop and counts j to NestIters.   *)
C21_LoopExitsToOwnEnd ==
    (CompiledBy("python") /\ compilation.source \in SeqWhileSources) =>
        /\ compilation.returned
        /\ \A k \in 1..(Len(compilation.jump_placeholders) - 1) :
              Operand(k) = OwnEnd(compilation.source)
        /\ Succeeded => ValueOf("j") = NestIters


(* How many of the instructions dispatched so far began at offset pos *)
Visits(pos) == Cardinality({k \in 1..Len(path) : path[k] = pos})

(* C22: continue inside a for loop reaches the update.  In a run of         *)
(* for (i = 0; i < n; i++) { continue; } the condition is tested again only *)
(* after the update has stored i, so the tests never outnumber the stores   *)
(* of i, and the run ends in success with i = n.                            *)
C22_ContinueReachesUpdate ==
    (CompiledBy("js") /\ compilation.source \in ForContinueSources
        /\ runs = 1) =>
        /\ Visits(DictGet(compilation.label_positions, "for_cond_0", 0))
              <= Len(writes)
        /\ phase \in {"returned", "raised"} =>
              /\ Succeeded
              /\ \E init \in ForInits :
                    compilation.source = ForContinue(init, ValueOf("i"))


(* for i in range(1): break *)
ForBreak == <<For("i", Range(Num(1)), <<Break>>)>>

(* C23: loop-context discipline.  The loop-context stack is empty when the  *)
(* lowering has finished, and a break placed directly in a for-range body   *)
(* compiles into a jump to that for loop's end, the JUMPDEST before the     *)
(* final STOP when the loop is the whole source.                            *)
C23_LoopContextDiscipline ==
    CompiledBy("python") =>
        /\ compilation.returned => compilation.loop_stack = <<>>
        /\ compilation.source = ForBreak =>
              /\ compilation.returned
              /\ \E k \in 1..Len(compilation.jump_placeholders) :
                    Operand(k) = Len(compilation.bytecode) - 2


(* The offsets at which an instruction of bytes begins: a PUSH1 takes the   *)
(* byte that follows it as its operand.  Decoded by halving the range, so   *)
(* that long code needs no deep recursion.                                  *)
(* NextStart: the first instruction start at or after offset to, decoding   *)
(* from the instruction start from < to.                                    *)
RECURSIVE NextStart(_, _, _)
NextStart(bytes, from, to) ==
    IF to - from = 1
    THEN from + (IF bytes[from + 1] = PUSH1 THEN 2 ELSE 1)
    ELSE LET e == NextStart(bytes, from, (from + to) \div 2)
         IN  IF e >= to THEN e ELSE NextStart(bytes, e, to)

(* StartsBetween: the instruction starts in from..(to - 1), from being one *)
RECURSIVE StartsBetween(_, _, _)
StartsBetween(bytes, from, to) ==
    IF to - from <= 1 THEN {from}
    ELSE LET mid == (from + to) \div 2
             e == NextStart(bytes, from, mid)
         IN  StartsBetween(bytes, from, mid)
                \cup (IF e < to THEN StartsBetween(bytes, e, to) ELSE {})

InstructionStarts(bytes, pos) ==
    IF pos >= Len(bytes) THEN {} ELSE StartsBetween(bytes, pos, Len(bytes))

JumpdestStarts(bytes) ==
    {pos \in InstructionStarts(bytes, 0) : bytes[pos + 1] = JUMPDEST}

(* The last dispatched instruction was a JUMP, or a JUMPI whose condition   *)
(* was not 0, and dest is the destination it popped.                        *)
Jumped(dest) ==
    /\ Dispatched
    /\ \/ opcode = JUMP /\ Len(pre.stack) >= 1
       \/ opcode = JUMPI /\ Len(pre.stack) >= 2
             /\ pre.stack[Len(pre.stack) - 1] # 0
    /\ dest = Top(pre.stack)

(* C24: the jump-destination set.  In a run the set used for validation is  *)
(* exactly the set of offsets at which a JUMPDEST instruction begins, and a *)
(* jump to any other offset, the operand byte of a PUSH1 with value 0x5b    *)
(* among them, faults with invalid-jump.                                    *)
C24_JumpdestsAreInstructions ==
    runs >= 1 =>
        /\ jumpdests = JumpdestStarts(code)
        /\ \A dest \in 0..255 :
              (Jumped(dest) /\ dest \notin JumpdestStarts(code))
                  => fault = "InvalidJumpError"


(* The operands of the PUSH1 that precede the SLOAD and SSTORE instructions *)
(* of bytes: the slots the code refers to.                                  *)
SlotsReferred(bytes) ==
    {bytes[pos] : pos \in {q \in InstructionStarts(bytes, 0) :
                              bytes[q + 1] \in {SLOAD, SSTORE}}}

(* C25: slot table stability.  In what any front end returns, the slot      *)
(* table binds each name once, to the slot that the hash of the name gives, *)
(* a number in 0..255 that is the same in every compilation and front end,  *)
(* and the code loads and stores at the slots of the table only.            *)
C25_SlotTableStable ==
    compilation.returned =>
        /\ Len(compilation.storage_map)
              = Cardinality(DictKeys(compilation.storage_map))
        /\ \A v \in DictKeys(compilation.storage_map) :
              /\ DictGet(compilation.storage_map, v, -1) = SlotOf(v)
              /\ SlotOf(v) \in 0..255
        /\ SlotsReferred(compilation.bytecode)
              = {SlotOf(v) : v \in DictKeys(compilation.storage_map)}

(* C25 witness: the C front end has compiled a loop on i and s, bound both  *)
(* names, and the run of the code has stored at both slots.                 *)
C25_Witness ==
    /\ CompiledBy("c")
    /\ compilation.returned
    /\ DictKeys(compilation.storage_map) = {"i", "s"}
    /\ Succeeded
    /\ {writes[k][1] : k \in 1..Len(writes)} = {SlotOf("i"), SlotOf("s")}


(* The offsets of the JUMP and JUMPI instructions of bytes *)
JumpStarts(bytes) ==
    {pos \in InstructionStarts(bytes, 0) : bytes[pos + 1] \in {JUMP, JUMPI}}

(* C26: compiled jumps are always valid.  In the bytecode that compile      *)
(* returns for any nesting and sequence of if, while, for-range, break and  *)
(* continue, every JUMP and JUMPI follows a PUSH1 whose operand is the      *)
(* offset of a JUMPDEST instruction, and no run of it faults with           *)
(* invalid-jump.                                                            *)
C26_CompiledJumpsValid ==
    (CompiledBy("python") /\ compilation.returned) =>
        /\ LET bytes == compilation.bytecode
               starts == InstructionStarts(bytes, 0)
               dests == {pos \in starts : bytes[pos + 1] = JUMPDEST}
           IN  \A pos \in starts :
                  bytes[pos + 1] \in {JUMP, JUMPI} =>
                      /\ pos >= 2
                      /\ pos - 2 \in starts
                      /\ bytes[pos - 1] = PUSH1
                      /\ bytes[pos] \in dests
        /\ fault # "InvalidJumpError"

(* C26 witness: a while loop around an if with a break has been compiled,   *)
(* and a run of it has taken the break's jump and ended in success.         *)
C26_Witness ==
    /\ CompiledBy("python")
    /\ compilation.source
          = <<While(ShapeTest, <<If(ShapeTest, <<Break>>, <<>>)>>)>>
    /\ Cardinality(JumpStarts(compilation.bytecode)) >= 5
    /\ Succeeded
    /\ \E k \in 1..Len(path) : code[path[k] + 1] = JUMP


(* The offsets that compile has bound to labels *)
LabelOffsets ==
    {compilation.label_positions[k][2] :
        k \in 1..Len(compilation.label_positions)}

(* C27: no silent truncation of jump targets.  In bytecode that compile     *)
(* returns every placeholder byte equals the whole offset bound to its      *)
(* label, and no label and no JUMPDEST, each the target of a jump operand,  *)
(* lies at offset 256 or beyond: for such a source compile fails.           *)
C27_NoSilentTruncation ==
    (CompiledBy("python") /\ compilation.returned) =>
        /\ \A k \in 1..Len(compilation.jump_placeholders) :
              Operand(k) = DictGet(compilation.label_positions,
                                   compilation.jump_placeholders[k][2], -1)
        /\ \A offset \in LabelOffsets : offset < 256
        /\ \A pos \in JumpdestStarts(compilation.bytecode) : pos < 256

(* C27 witness: a source whose if ends beyond offset 255 has been compiled: *)
(* a label is bound to 256 or more and compile has raised ValueError.       *)
C27_Witness ==
    /\ CompiledBy("python")
    /\ compilation.source \in LongSources
    /\ Last(compilation.source)[1] = "If"
    /\ \E offset \in LabelOffsets : offset >= 256
    /\ compilation.error = "ValueError"
    /\ ~compilation.returned

(* C28: a run of execute on an address leaves every other address as it was *)
(* before the run, neither adding nor removing nor changing its account,    *)
(* whether the run is under way, has halted or has faulted; and a run that  *)
(* faults on an address without an account leaves it without one.           *)
OtherAddresses == (DOMAIN accounts \cup DOMAIN accounts0) \ {contract_address}

C28_FrameOfARun ==
    runs >= 1 =>
        /\ \A b \in OtherAddresses :
              /\ b \in DOMAIN accounts
              /\ b \in DOMAIN accounts0
              /\ accounts[b] = accounts0[b]
        /\ (Faulted /\ contract_address \notin DOMAIN accounts0) =>
              contract_address \notin DOMAIN accounts

(* A run on an address without an account stored a value and then faulted, *)
(* next to the account of another address.                                 *)
C28_Witness ==
    /\ Faulted
    /\ writes # <<>>
    /\ contract_address \notin DOMAIN accounts0
    /\ OtherAddresses # {}

(* C29: gas accounting.  At every state of a run, gas_remaining is the gas  *)
(* limit less the catalog costs of the instructions dispatched so far, the  *)
(* one that faulted in dispatch included; it lies between 0 and what it was *)
(* when the iteration began; the failure record reports it; and a byte that *)
(* is no opcode costs 0, so that fetching it never ends in the out-of-gas   *)
(* fault but in the invalid-opcode fault, whatever gas remains.             *)
DispatchFaults ==
    {"StackUnderflowError", "StackOverflowError", "InvalidJumpError",
     "InvalidOpcodeError"}

C29_GasAccounting ==
    runs >= 1 =>
        /\ gas_remaining = gas_limit - PathCost(path, Len(path))
        /\ 0 <= gas_remaining
        /\ gas_remaining <= gas_limit
        /\ pre.fetched => gas_remaining <= pre.gas_remaining
        /\ Faulted => result.gas_remaining = gas_remaining
        /\ fault \in DispatchFaults =>
              /\ path # <<>>
              /\ path[Len(path)] = pre.pc
              /\ gas_remaining =
                    pre.gas_remaining - get_opcode_gas(code[pre.pc + 1])
        /\ (pre.fetched /\ code[pre.pc + 1] \notin Opcodes) =>
              /\ get_opcode_gas(code[pre.pc + 1]) = 0
              /\ fault = "InvalidOpcodeError"
              /\ gas_remaining = pre.gas_remaining

(* A run spent its whole gas limit on instructions and then fetched a byte *)
(* that is no opcode.                                                      *)
C29_Witness ==
    /\ fault = "InvalidOpcodeError"
    /\ Len(path) >= 3
    /\ gas_limit > 0
    /\ pre.gas_remaining = 0

(* C30: a faulting instruction has no partial effect.  When an instruction *)
(* faults with stack underflow, invalid jump or invalid opcode, the stack  *)
(* and the storage in the failure record are those the iteration began     *)
(* with.                                                                    *)
C30_NoPartialEffect ==
    (Faulted /\ fault \in {"StackUnderflowError", "InvalidJumpError",
                           "InvalidOpcodeError"}) =>
        /\ result.stack = pre.stack
        /\ result.storage = pre.storage

====
